---- MODULE Spec2Model ----
(***************************************************************************)
(* Call session orchestration of the web messenger (src/app/views/call.js):*)
(* F.CallView (join/leave, signaling handlers, early ICE candidate queue), *)
(* F.CallMemberView (peer links, handshake, reconciliation) and            *)
(* ForstaRTCPeerConnection.                                                *)
(*                                                                         *)
(* JavaScript runs handlers to completion; an async function is cut at its *)
(* awaits.  Every action below is one synchronous segment: a handler from  *)
(* its entry to its first await (or its end), or the continuation of a     *)
(* suspended function from the completion of the awaited operation to the  *)
(* next await.  Consecutive awaits between which the function changes no   *)
(* state are one suspension point.                                         *)
(***************************************************************************)
EXTENDS Integers, Sequences, FiniteSets, TLC

(* ---------------------------------------------------------------- bounds *)
\* member view objects ever created by addMemberView (remote members)
MaxViews == 2
\* ForstaRTCPeerConnection objects ever created by makePeerConnection
MaxLinks == 2
\* remote ICE candidates ever delivered by peericecandidates events
MaxCands == 2
\* join announcements ever sent by manager.sendJoin
MaxJoins == 2
\* invocations queued in one F.queueAsync bucket behind the running one
MaxQueue == 1

\* addresses (userId.device) of the remote members
Addrs == {"u1.1"}
\* join types carried by join announcements and join buttons
JoinTypes == {"audio", "video"}
\* the peer id a remote party generated for a link it offers
RemoteId == 0
\* candidates in one callICECandidates message when the empty one is among them
MaxBatch == 1
\* connections whose transceivers are watched, and transceivers of one connection
MaxPeers == 2
MaxTransceivers == 2
\* the kinds of a media track
Kinds == {"audio", "video"}
\* the types of the session description a callOffer message can carry
DescTypes == {"offer", "answer"}
\* Date.now() when the call view is constructed, in ms (never 0)
Epoch == 1000
\* this.outView, the member view of the session's own device, among the view ids
outView == -1
\* soundRMS of a view without a sound meter reading: -1, in thousandths
NoSound == -1000
\* isStale(): ms without a connection after which a link is stale
StaleAfter == 30000
\* the clock stops here
MaxClock == 70000
\* addIncoming: the delay of the timer that clears the invitations, in ms
IncomingTimeout == 45000
\* the time that passes between two steps while invitations are pending, in ms
IncomingTicks == {15000, 30000}
\* the addresses that invite
Inviters == {"u1.1", "u2.1"}
\* the time that passes between two steps of a watched connection, in ms
StaleTicks == {1000, 29000}
\* media sections of a session description
MaxSections == 2
\* limitSDPBandwidth calls made on one description: by its sender, then its receiver
MaxLimits == 2
\* the bandwidth arguments (callIngressBps, callEgressBps), 0: none is configured
Ceilings == {0, 500000, 2000000}
\* the period of the checkSoundLevels interval, in ms
Interval == 500
\* checkSoundLevels: ms after a switch during which it makes no other
Hysteresis == 2000
\* getMostPresentableMemberView: the lead that dethrones, 0.01, in thousandths
Margin == 10
\* firings of the checkSoundLevels interval
MaxTicks == 5
\* checkSoundLevels calls suspended at a time
MaxChecks == 2
\* member views ever made while the presenter is watched
MaxMembers == 3
\* the addresses of the remote members while the presenter is watched
MemberAddrs == {"u1.1", "u2.1", "u3.1"}
\* soundRMS readings of the sound meters, in thousandths
Levels == {100, 110, 115, 120, 500}
\* the members that come and go
Comers == {"u1.1", "u2.1"}
\* the readings while members come and go: quiet and loud
Loudness == {100, 500}

(* ------------------------------------------------------------- variables *)
VARIABLES
    joined,         \* $el.hasClass('joined')                 (isJoined)
    everJoined,     \* this._joined is set
    joining,        \* this._joining
    leaving,        \* this._leaving
    joinType,       \* this.joinType: "undefined", "null", "audio", "video"
    outStream,      \* this.outStream: 0 = null, n = the n-th acquired stream
    outVideo,       \* outStream holds a video track
    incoming,       \* this._incoming
    incomingTypes,  \* this._incomingTypes
    clearIncomingTimeout, \* this._clearIncomingTimeout is armed
    clearIncomingDue, \* Date.now() at which the armed timer fires, 0: not armed
    invitedAt,      \* Date.now() at the last addIncoming of the pending set, 0: none (observation only)
    incomingKinds,  \* the types each pending address has invited with (observation only)
    removed,        \* CallView.remove() ran: manager listeners are gone
    cleaned,        \* CallView._cleanup() ran
    joinPc,         \* join(): "idle" | "send" (awaiting manager.sendJoin)
    leaveTask,      \* leave(): [pc, removing, owner]
    hiddenPc,       \* CallSettingsView.onHidden: "idle" | "leave" | "join"
    hiddenType,     \* onHidden's saved join type
    memberViews,    \* this.memberViews restricted to remote addresses: addr -> view (0: none)
    views,          \* the CallMemberView objects ever created, by creation order
    links,          \* the ForstaRTCPeerConnection objects ever created, by creation order
    queues,         \* the F.queueAsync buckets: key -> jobs, the oldest first
    hpa,            \* links with a handlePeerAcceptOffer suspended at setRemoteDescription
    early,          \* this._earlyICECandidates: peer id -> candidates
    applied,        \* per peer id, the candidates handed to addIceCandidate, in call order
    arrived,        \* arrived[c]: the peer id candidate c was delivered under
    nJoinSent,      \* calls of manager.sendJoin
    nLeaveSent,     \* calls of manager.sendLeave
    last,           \* the case the last step was, "" when it was none (observation only)
    clock,          \* Date.now(), in ms
    probe,          \* a ForstaRTCPeerConnection watched alone: [ice, added, connected]
    staleSeen,      \* what its isStale() returned last: "none" | "stale" | "fresh"
    offer,          \* a session description as createOffer/createAnswer made it: [type, sdp]
    ceilings,       \* the bandwidth arguments of the limitSDPBandwidth calls made on it, in order
    desc,           \* the description after these calls: [type, sdp]
    presenting,     \* this._presenting: 0 (not set), outView or a member view
    lastPresenterSwitch, \* this._lastPresenterSwitch, 0: not set
    pinned,         \* the member views whose element has class 'pinned'
    soundChecks,    \* checkSoundLevels calls suspended at await selectPresenter
    switchedAt,     \* Date.now() at the last switch checkSoundLevels made, 0: none (observation only)
    transceivers,   \* peer.getTransceivers() of the members' connections watched alone, in loop order
    replaced        \* the replaceMembersOutTrack call made on them: [kind, threw], kind "none": no call

sessVars == <<joined, everJoined, joining, leaving, joinType, outStream, outVideo,
              removed, cleaned, joinPc, leaveTask, hiddenPc, hiddenType,
              nJoinSent, nLeaveSent>>
incVars == <<incoming, incomingTypes, clearIncomingTimeout, clearIncomingDue, invitedAt,
             incomingKinds>>
memVars == <<memberViews, views, links>>
taskVars == <<queues, hpa>>
candVars == <<early, applied, arrived>>
staleVars == <<probe, staleSeen>>
sdpVars == <<offer, ceilings, desc>>
presVars == <<presenting, lastPresenterSwitch, pinned, soundChecks, switchedAt>>
trxVars == <<transceivers, replaced>>
extVars == <<clock, staleVars, sdpVars, presVars, trxVars>>
callVars == <<sessVars, incVars, memVars, taskVars, candVars>>
vars == <<sessVars, incVars, memVars, taskVars, candVars, last, extVars>>

(* --------------------------------------------------------------- helpers *)
Range(s) == {s[i] : i \in 1..Len(s)}

Lids == 1..Len(links)
Vids == 1..Len(views)

\* peer ids: RemoteId, and the uuid4 of the k-th link, which is k
PeerIds == 0..MaxLinks

\* the peer ids a remote party can name: its own and those of the links made here
KnownIds == {RemoteId} \cup {links[l].id : l \in Lids}

\* the F.queueAsync keys: <<operation prefix, address>>
Keys == {"call-establish", "call-accept-offer"} \X Addrs

IdleLeave == [pc |-> "idle", removing |-> FALSE, owner |-> "none"]


(* ------------------------------------------------- ForstaRTCPeerConnection *)
\* a connection as makePeerConnection returns it and addPeer registers it; media:
\* its MediaStream (_meta.stream) holds an enabled track that is not muted
NewLink(v, id) ==
    [view |-> v, id |-> id, ice |-> "new", rd |-> FALSE, bound |-> FALSE,
     tracksAdded |-> FALSE, open |-> TRUE, media |-> FALSE, assertFailed |-> FALSE]

\* the ICE connection states a live connection reports
IceStates == {"new", "connected", "completed", "disconnected"}

isConnected(ice) == ice = "connected" \/ ice = "completed"

\* variant: stale from 30 s on
isStaleInclusive(p, now) ==
    IF isConnected(p.ice) THEN FALSE
    ELSE IF p.connected # 0 THEN now - p.connected >= StaleAfter
         ELSE now - p.added >= StaleAfter

\* isStale() of a connection p = [ice, added, connected] at Date.now() = now;
\* connected = 0: getMeta('connected') is undefined
isStale(p, now) ==
    IF isConnected(p.ice) THEN FALSE
    ELSE IF p.connected # 0 THEN now - p.connected > StaleAfter
         ELSE now - p.added > StaleAfter

(* ------------------------------------------------------- early candidates *)
\* F.util.DefaultMap(Array).get: the entry is created on first access
DefaultMapGet(m, k) ==
    IF k \in DOMAIN m THEN m ELSE [x \in DOMAIN m \cup {k} |-> IF x = k THEN <<>> ELSE m[x]]

\* variant: the batch replaces the bucket
enqueueReplacing(m, peerId, icecandidates) ==
    LET m1 == DefaultMapGet(m, peerId)
    IN  [m1 EXCEPT ![peerId] = icecandidates]

enqueueEarlyICECandidates(m, peerId, icecandidates) ==
    LET m1 == DefaultMapGet(m, peerId)
    IN  [m1 EXCEPT ![peerId] = @ \o icecandidates]

\* variant: the entry is deleted and its bucket not returned
drainForgetting(m, peerId) ==
    IF peerId \notin DOMAIN m
    THEN [has |-> FALSE, bucket |-> <<>>, map |-> m]
    ELSE [has |-> FALSE, bucket |-> <<>>,
          map |-> [x \in DOMAIN m \ {peerId} |-> m[x]]]

\* has: FALSE is the undefined return; map: this._earlyICECandidates afterwards
drainEarlyICECandidates(m, peerId) ==
    IF peerId \notin DOMAIN m
    THEN [has |-> FALSE, bucket |-> <<>>, map |-> m]
    ELSE [has |-> TRUE, bucket |-> m[peerId],
          map |-> [x \in DOMAIN m \ {peerId} |-> m[x]]]

(* ----------------------------------------------------------- CallMemberView *)
\* soundRMS is in thousandths; stream: the connection whose MediaStream is rendered
\* (0: null); streaming: the element has class 'streaming'
NewView(a) ==
    [addr |-> a, registered |-> TRUE, streamingPeer |-> 0, status |-> "",
     offering |-> FALSE, peerActionTimeout |-> FALSE, timers |-> {},
     checking |-> FALSE, snapshot |-> {},
     stream |-> 0, streaming |-> FALSE, soundRMS |-> NoSound]

\* view._peers: removePeer unregisters and closes a connection in one go, so the
\* registered connections of a view are its open ones
getPeersOf(L, v) == {l \in 1..Len(L) : L[l].view = v /\ L[l].open}
getPeers(v) == getPeersOf(links, v)

\* variant: an id no connection has finds the oldest connection of the view
getPeerOfAny(L, v, id) ==
    LET s == {l \in getPeersOf(L, v) : L[l].id = id}
    IN  IF s # {} THEN CHOOSE l \in s : TRUE
        ELSE IF getPeersOf(L, v) = {} THEN 0
        ELSE CHOOSE l \in getPeersOf(L, v) : \A m \in getPeersOf(L, v) : l <= m

\* 0 stands for undefined
getPeerOf(L, v, id) ==
    LET s == {l \in getPeersOf(L, v) : L[l].id = id}
    IN  IF s = {} THEN 0 ELSE CHOOSE l \in s : TRUE
getPeer(v, id) == getPeerOf(links, v, id)

getMemberView(a) == memberViews[a]

\* updateStream with the MediaStream of connection l (never null), its connection
\* states read from L
updateStream(L, V, v, l) ==
    [V EXCEPT ![v].stream = l, ![v].streamingPeer = l, ![v].soundRMS = NoSound,
              ![v].streaming = (L[l].media /\ isConnected(L[l].ice))]

removeStream(V, v) ==
    [V EXCEPT ![v].streamingPeer = 0, ![v].streaming = FALSE, ![v].soundRMS = NoSound,
              ![v].stream = 0]

setStatus(V, v, status) == [V EXCEPT ![v].status = status]

\* bindPeer: attach the view's listeners once, then render the connection's stream
bindPeer(L, V, l) ==
    IF L[l].bound
    THEN [links |-> L, views |-> V]
    ELSE [links |-> [L EXCEPT ![l].bound = TRUE],
          views |-> updateStream(L, V, L[l].view, l)]

\* variant: removePeer without the removeStream() of the streaming connection
removePeerKeepingStream(L, V, l) ==
    IF ~L[l].open
    THEN [links |-> L, views |-> V]
    ELSE [links |-> [L EXCEPT ![l].bound = FALSE, ![l].open = FALSE, ![l].ice = "closed"],
          views |-> V]

\* removePeer: clears the rendered stream first when the connection is the
\* streaming one, then unbinds, unregisters and closes
removePeer(L, V, l) ==
    IF ~L[l].open
    THEN [links |-> L, views |-> V]
    ELSE [links |-> [L EXCEPT ![l].bound = FALSE, ![l].open = FALSE, ![l].ice = "closed"],
          views |-> IF V[L[l].view].streamingPeer = l
                    THEN removeStream(V, L[l].view) ELSE V]

\* removePeer for each of the connections ls, in the order they were added
RECURSIVE removePeers(_, _, _)
removePeers(L, V, ls) ==
    IF ls = {} THEN [links |-> L, views |-> V]
    ELSE LET l == CHOOSE x \in ls : \A y \in ls : x <= y
             h == removePeer(L, V, l)
         IN  removePeers(h.links, h.views, ls \ {l})

\* CallMemberView.remove of a remote member: stop peerCheck, remove every peer
removeView(L, V, v) ==
    LET h == removePeers(L, V, getPeersOf(L, v))
    IN  [links |-> h.links, views |-> [h.views EXCEPT ![v].registered = FALSE]]

\* removeMemberView of the registered view of its address; what it does to the
\* presenter is PresenterFollows
removeMemberView(M, L, V, v) ==
    LET h == removeView(L, V, v)
    IN  [memberViews |-> [M EXCEPT ![V[v].addr] = 0],
         links |-> h.links, views |-> h.views]

\* leave(): the loop removing every non-outgoing member view
RECURSIVE removeAllRemote(_, _, _, _)
removeAllRemote(M, L, V, as) ==
    IF as = {} THEN [memberViews |-> M, links |-> L, views |-> V]
    ELSE LET a == CHOOSE x \in as : TRUE
             h == IF M[a] = 0 THEN [memberViews |-> M, links |-> L, views |-> V]
                  ELSE removeMemberView(M, L, V, M[a])
         IN  removeAllRemote(h.memberViews, h.links, h.views, as \ {a})

(* ------------------------------------- CallView: the most presentable member *)
\* getMemberViews() without outView: the remote member views; the Map hands them
\* out in the order they were added, which is the order of their ids
remoteViews(M) == {M[a] : a \in DOMAIN M} \ {0}

\* variant: any lead dethrones
RECURSIVE loudestOfNoMargin(_, _, _)
loudestOfNoMargin(V, vs, loudest) ==
    IF vs = {} THEN loudest
    ELSE LET view == CHOOSE x \in vs : \A y \in vs : x <= y
         IN  loudestOfNoMargin(V, vs \ {view},
                               IF loudest = 0 \/ V[view].soundRMS - V[loudest].soundRMS > 0
                               THEN view ELSE loudest)

\* the loop of getMostPresentableMemberView over the views vs; loudest 0: null
RECURSIVE loudestOf(_, _, _)
loudestOf(V, vs, loudest) ==
    IF vs = {} THEN loudest
    ELSE LET view == CHOOSE x \in vs : \A y \in vs : x <= y
         IN  loudestOf(V, vs \ {view},
                       IF loudest = 0 \/ V[view].soundRMS - V[loudest].soundRMS >= Margin
                       THEN view ELSE loudest)

\* getMostPresentableMemberView with this._presenting = pres (0: null or undefined)
getMostPresentableMemberView(M, V, pres) ==
    LET vs == remoteViews(M)
    IN  IF vs = {} THEN outView
        ELSE IF Cardinality(vs) = 1 THEN CHOOSE x \in vs : TRUE
        ELSE loudestOf(V, vs, IF pres # outView THEN pres ELSE 0)

\* removeMemberView, the part on the presenter, for the views that left memberViews
\* in this step: when the presenter is among them the most presentable of the views
\* that remain is selected; a removed view takes its pin with it
PresenterFollows ==
    LET gone == remoteViews(memberViews) \ remoteViews(memberViews')
    IN  /\ presenting' = IF presenting \in gone
                         THEN getMostPresentableMemberView(memberViews', views', 0)
                         ELSE presenting
        /\ pinned' = pinned \ gone
        /\ UNCHANGED <<clock, staleVars, sdpVars, trxVars, lastPresenterSwitch, soundChecks,
                       switchedAt>>


(* ------------------------------------------------------------------ Init *)
\* the call view after initialize() and setup(), for the remote addresses A: the
\* outgoing stream is bound, nobody has joined, no remote member is known
InitCallOf(M, V) ==
    /\ joined = FALSE /\ everJoined = FALSE /\ joining = FALSE /\ leaving = FALSE
    /\ joinType = "undefined"
    /\ outStream = 1 /\ outVideo = TRUE
    /\ incoming = {} /\ incomingTypes = {} /\ clearIncomingTimeout = FALSE
    /\ clearIncomingDue = 0 /\ invitedAt = 0 /\ incomingKinds = <<>>
    /\ removed = FALSE /\ cleaned = FALSE
    /\ joinPc = "idle" /\ leaveTask = IdleLeave
    /\ hiddenPc = "idle" /\ hiddenType = "undefined"
    /\ memberViews = M
    /\ views = V /\ links = <<>>
    /\ queues = [k \in {"call-establish", "call-accept-offer"} \X DOMAIN M |-> <<>>]
    /\ hpa = {}
    /\ early = <<>>
    /\ applied = [p \in PeerIds |-> <<>>]
    /\ arrived = <<>>
    /\ nJoinSent = 0 /\ nLeaveSent = 0
    /\ last = ""

\* a connection as addPeer has just registered it, not watched further
\* the state after construction: no member view yet
InitCall(A) == InitCallOf([a \in A |-> 0], <<>>)

InitProbe ==
    /\ probe = [ice |-> "new", added |-> clock, connected |-> 0]
    /\ staleSeen = "none"

\* no description is being limited
InitSdp ==
    /\ offer = [type |-> "offer", sdp |-> <<>>]
    /\ ceilings = <<>>
    /\ desc = offer

\* no connection's transceivers are watched
InitTransceivers ==
    /\ transceivers = <<>>
    /\ replaced = [kind |-> "none", threw |-> FALSE]

\* before the first render: no presenter is selected, nothing is pinned
InitPresenter ==
    /\ presenting = 0 /\ lastPresenterSwitch = 0
    /\ pinned = {} /\ soundChecks = 0 /\ switchedAt = 0

Init ==
    /\ InitCall(Addrs)
    /\ clock = Epoch
    /\ InitProbe /\ InitSdp /\ InitPresenter /\ InitTransceivers

(* ------------------------------------------------- CallView: incoming set *)
clearIncoming ==
    /\ incoming' = {}
    /\ incomingTypes' = {}
    /\ clearIncomingTimeout' = FALSE
    /\ clearIncomingDue' = 0
    /\ invitedAt' = 0
    /\ incomingKinds' = <<>>

\* variant: a timer that is armed is left to run
addIncomingNoRestart(addr, type) ==
    /\ incoming' = incoming \cup {addr}
    /\ incomingTypes' = incomingTypes \cup {type}
    /\ clearIncomingTimeout' = TRUE
    /\ clearIncomingDue' = IF clearIncomingTimeout THEN clearIncomingDue
                           ELSE clock + IncomingTimeout
    /\ invitedAt' = clock
    /\ incomingKinds' = [a \in incoming \cup {addr} |->
                            (IF a \in incoming THEN incomingKinds[a] ELSE {})
                              \cup (IF a = addr THEN {type} ELSE {})]

\* addIncoming: a pending timer is cancelled, a new one armed for 45 s from now
addIncoming(addr, type) ==
    /\ incoming' = incoming \cup {addr}
    /\ incomingTypes' = incomingTypes \cup {type}
    /\ clearIncomingTimeout' = TRUE
    /\ clearIncomingDue' = clock + IncomingTimeout
    /\ invitedAt' = clock
    /\ incomingKinds' = [a \in incoming \cup {addr} |->
                            (IF a \in incoming THEN incomingKinds[a] ELSE {})
                              \cup (IF a = addr THEN {type} ELSE {})]

removeIncoming(addr) ==
    /\ incoming' = incoming \ {addr}
    /\ incomingTypes' = IF incoming \ {addr} = {} THEN {} ELSE incomingTypes
    /\ clearIncomingTimeout' = IF incoming \ {addr} = {} THEN FALSE ELSE clearIncomingTimeout
    /\ clearIncomingDue' = IF incoming \ {addr} = {} THEN 0 ELSE clearIncomingDue
    /\ invitedAt' = IF incoming \ {addr} = {} THEN 0 ELSE invitedAt
    /\ incomingKinds' = [a \in incoming \ {addr} |-> incomingKinds[a]]

\* the type _updateIncoming announces and onIncomingAcceptClick joins with
incomingType == IF "video" \in incomingTypes THEN "video" ELSE "audio"

(* ------------------------------------------------- CallView: join / leave *)
\* setJoined(true)
setJoinedTrue ==
    /\ joined' = TRUE
    /\ everJoined' = TRUE
    /\ clearIncoming

\* setJoined(false)
setJoinedFalse ==
    /\ joined' = FALSE
    /\ clearIncoming

\* variant: join without the test of _joining
joinUnguarded(type) ==
    /\ joining' = TRUE
    /\ joinType' = IF type \in JoinTypes THEN type ELSE "video"
    /\ outVideo' = IF type = "audio" THEN FALSE ELSE outVideo
    /\ nJoinSent' = nJoinSent + 1
    /\ joinPc' = "send"

\* join(options) up to its await of manager.sendJoin
join(type) ==
    IF joining
    THEN UNCHANGED <<joining, joinType, outVideo, nJoinSent, joinPc>>
    ELSE /\ joining' = TRUE
         /\ joinType' = IF type \in JoinTypes THEN type ELSE "video"
         /\ outVideo' = IF type = "audio" THEN FALSE ELSE outVideo
         /\ nJoinSent' = nJoinSent + 1
         /\ joinPc' = "send"

\* leave(options) returns at once
leaveIgnored == ~joined \/ leaving

\* variant: leave without the test of isJoined() and _leaving
leaveUnguarded(removing, owner) ==
    /\ leaving' = TRUE
    /\ setJoinedFalse
    /\ nLeaveSent' = nLeaveSent + 1
    /\ leaveTask' = [pc |-> "send", removing |-> removing, owner |-> owner]

\* leave(options) up to its await of manager.sendLeave
leave(removing, owner) ==
    IF leaveIgnored
    THEN UNCHANGED <<joined, leaving, nLeaveSent, leaveTask, incVars>>
    ELSE /\ leaving' = TRUE
         /\ setJoinedFalse
         /\ nLeaveSent' = nLeaveSent + 1
         /\ leaveTask' = [pc |-> "send", removing |-> removing, owner |-> owner]

\* _cleanup(): the outgoing stream is stopped and dropped, every member view removed
cleanup(M, L, V) ==
    LET h == removeAllRemote(M, L, V, DOMAIN M)
    IN  /\ outStream' = 0
        /\ cleaned' = TRUE
        /\ memberViews' = h.memberViews /\ links' = h.links /\ views' = h.views

\* onJoinClick
JoinClick(type) ==
    /\ ~removed /\ ~joined
    /\ nJoinSent < MaxJoins
    /\ join(type)
    /\ last' = (IF joining THEN "joinIgnored" ELSE "")
    /\ UNCHANGED <<joined, everJoined, leaving, outStream, removed, cleaned, leaveTask,
                   hiddenPc, hiddenType, nLeaveSent, incVars, memVars, taskVars,
                   candVars>>
    /\ UNCHANGED extVars

\* onIncomingAcceptClick
IncomingAccept ==
    /\ ~removed /\ incoming # {}
    /\ nJoinSent < MaxJoins
    /\ clearIncoming
    /\ join(IF "video" \in incomingTypes THEN "video" ELSE "audio")
    /\ last' = (IF joining THEN "joinIgnored" ELSE "")
    /\ UNCHANGED <<joined, everJoined, leaving, outStream, removed, cleaned, leaveTask,
                   hiddenPc, hiddenType, nLeaveSent, memVars, taskVars, candVars>>
    /\ UNCHANGED extVars

\* onIncomingIgnoreClick, and the 45 s timer armed by addIncoming
ClearIncoming ==
    /\ ~removed /\ (incoming # {} \/ clearIncomingTimeout)
    /\ clearIncoming
    /\ UNCHANGED <<sessVars, memVars, taskVars, candVars>>
    /\ last' = ""
    /\ UNCHANGED extVars

\* the timer armed by addIncoming fires, not before it is due: clearIncoming()
IncomingTimerFire ==
    /\ clearIncomingTimeout /\ clock >= clearIncomingDue
    /\ clearIncoming
    /\ last' = "incomingTimeout"
    /\ UNCHANGED <<sessVars, memVars, taskVars, candVars>>
    /\ UNCHANGED extVars

\* join() resumes: manager.sendJoin resolved
JoinSendOk ==
    /\ joinPc = "send"
    /\ setJoinedTrue
    /\ joining' = FALSE
    /\ joinPc' = "idle"
    /\ last' = ""
    /\ UNCHANGED <<leaving, joinType, outStream, outVideo, removed, cleaned, leaveTask,
                   hiddenPc, hiddenType, nJoinSent, nLeaveSent, memVars, taskVars,
                   candVars>>
    /\ UNCHANGED extVars

\* variant: the rejection leaves _joining set (no finally)
JoinSendFailNoFinally ==
    /\ joinPc = "send"
    /\ joinPc' = "idle"
    /\ last' = "joinFailed"
    /\ UNCHANGED <<joined, everJoined, joining, leaving, joinType, outStream, outVideo,
                   removed, cleaned, leaveTask, hiddenPc, hiddenType, nJoinSent,
                   nLeaveSent, incVars, memVars, taskVars, candVars>>
    /\ UNCHANGED extVars

\* join() resumes: manager.sendJoin rejected
JoinSendFail ==
    /\ joinPc = "send"
    /\ joining' = FALSE
    /\ joinPc' = "idle"
    /\ last' = "joinFailed"
    /\ UNCHANGED <<joined, everJoined, leaving, joinType, outStream, outVideo, removed,
                   cleaned, leaveTask, hiddenPc, hiddenType, nJoinSent, nLeaveSent,
                   incVars, memVars, taskVars, candVars>>
    /\ UNCHANGED extVars

\* onLeaveClick
LeaveClick ==
    /\ ~removed /\ joined
    /\ leave(FALSE, "user")
    /\ last' = (IF leaveIgnored THEN "leaveIgnored" ELSE "")
    /\ UNCHANGED <<everJoined, joining, joinType, outStream, outVideo, removed, cleaned,
                   joinPc, hiddenPc, hiddenType, nJoinSent, memVars, taskVars,
                   candVars>>
    /\ UNCHANGED extVars

\* leave() resumes: manager.sendLeave resolved
LeaveSendOk ==
    /\ leaveTask.pc = "send"
    /\ joinType' = "null"
    /\ LET h == removeAllRemote(memberViews, links, views, DOMAIN memberViews)
       IN  IF leaveTask.removing
           THEN /\ leaving' = FALSE
                /\ leaveTask' = IdleLeave
                /\ IF leaveTask.owner = "remove"
                   THEN cleanup(h.memberViews, h.links, h.views)
                   ELSE /\ memberViews' = h.memberViews /\ links' = h.links
                        /\ views' = h.views
                        /\ UNCHANGED <<outStream, cleaned>>
           ELSE /\ leaveTask' = [leaveTask EXCEPT !.pc = "bind"]
                /\ memberViews' = h.memberViews /\ links' = h.links /\ views' = h.views
                /\ UNCHANGED <<leaving, outStream, cleaned>>
    /\ last' = ""
    /\ UNCHANGED <<joined, everJoined, joining, outVideo, removed, joinPc, hiddenPc,
                   hiddenType, nJoinSent, nLeaveSent, incVars, taskVars, candVars>>
    /\ PresenterFollows

\* leave() resumes: manager.sendLeave rejected
LeaveSendFail ==
    /\ leaveTask.pc = "send"
    /\ leaving' = FALSE
    /\ leaveTask' = IdleLeave
    /\ hiddenPc' = IF leaveTask.owner = "hidden" THEN "idle" ELSE hiddenPc
    /\ UNCHANGED <<joined, everJoined, joining, joinType, outStream, outVideo, removed,
                   cleaned, joinPc, hiddenType, nJoinSent, nLeaveSent, incVars, memVars,
                   taskVars, candVars>>
    /\ last' = ""
    /\ UNCHANGED extVars

\* leave() resumes: bindOutStream({reset: true}) is through.  The new stream is
\* assigned before the pass over the members, which throws when the outgoing view
\* is gone or a link has no transceiver for a track.
LeaveBindDone(ok) ==
    /\ leaveTask.pc = "bind"
    /\ ok => ~cleaned
    /\ ~ok => (cleaned \/ \E a \in DOMAIN memberViews :
                              memberViews[a] # 0 /\ getPeers(memberViews[a]) # {})
    /\ outStream' = outStream + 1
    /\ outVideo' = TRUE
    /\ leaving' = FALSE
    /\ leaveTask' = IdleLeave
    /\ hiddenPc' = IF leaveTask.owner = "hidden"
                   THEN (IF ok THEN "join" ELSE "idle") ELSE hiddenPc
    /\ UNCHANGED <<joined, everJoined, joining, joinType, removed, cleaned, joinPc,
                   hiddenType, nJoinSent, nLeaveSent, incVars, memVars, taskVars,
                   candVars>>
    /\ last' = ""
    /\ UNCHANGED extVars

\* CallSettingsView.onHidden with a change that needs a restart: leave, then join
OnHidden ==
    /\ ~removed /\ joined /\ hiddenPc = "idle"
    /\ nJoinSent < MaxJoins
    /\ hiddenType' = joinType
    /\ leave(FALSE, "hidden")
    /\ hiddenPc' = IF leaveIgnored THEN "join" ELSE "leave"
    /\ last' = (IF leaveIgnored THEN "leaveIgnored" ELSE "")
    /\ UNCHANGED <<everJoined, joining, joinType, outStream, outVideo, removed, cleaned,
                   joinPc, nJoinSent, memVars, taskVars, candVars>>
    /\ UNCHANGED extVars

\* onHidden resumes after leave(): join({type})
HiddenJoin ==
    /\ hiddenPc = "join"
    /\ hiddenPc' = "idle"
    /\ join(hiddenType)
    /\ last' = (IF joining THEN "joinIgnored" ELSE "")
    /\ UNCHANGED <<joined, everJoined, leaving, outStream, removed, cleaned, leaveTask,
                   hiddenType, nLeaveSent, incVars, memVars, taskVars, candVars>>
    /\ UNCHANGED extVars

\* CallView.remove(): onCloseClick
Remove ==
    /\ ~removed
    /\ removed' = TRUE
    /\ IF everJoined
       THEN /\ leave(TRUE, "remove")
            /\ IF leaveIgnored
               THEN cleanup(memberViews, links, views)
               ELSE UNCHANGED <<outStream, cleaned, memVars>>
       ELSE /\ cleanup(memberViews, links, views)
            /\ UNCHANGED <<joined, leaving, nLeaveSent, leaveTask, incVars>>
    /\ last' = (IF everJoined /\ leaveIgnored THEN "leaveIgnored" ELSE "")
    /\ UNCHANGED <<everJoined, joining, joinType, outVideo, joinPc, hiddenPc, hiddenType,
                   nJoinSent, taskVars, candVars>>
    /\ PresenterFollows

(* ------------------------------------------- handshake jobs and F.queueAsync *)
\* the queue names establish and acceptOffer hand to F.queueAsync
establishKey(addr) == <<"call-establish", addr>>
\* variant: acceptOffer under the queue name of establish
acceptOfferKeyShared(addr) == <<"call-establish", addr>>
acceptOfferKey(addr) == <<"call-accept-offer", addr>>

\* an invocation handed to F.queueAsync; pc: "wait" (not started), "srd" (acceptOffer
\* awaiting setRemoteDescription), "ans" (awaiting addIceCandidate, createAnswer and
\* setLocalDescription); link: the connection acceptOffer works on
EstablishJob(v) ==
    [op |-> "establish", view |-> v, peerId |-> 0, pc |-> "wait", link |-> 0,
     newPeer |-> FALSE]
\* type: the type of the session description the callOffer message carries
AcceptOfferJobOf(v, peerId, type) ==
    [op |-> "acceptOffer", view |-> v, peerId |-> peerId, pc |-> "wait", link |-> 0,
     newPeer |-> FALSE, type |-> type]
AcceptOfferJob(v, peerId) == AcceptOfferJobOf(v, peerId, "offer")

\* variant: the type of the remote description is not looked at
isOfferUnchecked(job) == TRUE

\* F.assert(peer.remoteDescription.type === 'offer')
isOffer(job) == job.type = "offer"

\* addTracksToPeer: F.assert(!peer.getMeta('tracksAdded')), which throws on a marked
\* connection (assertFailed records it); then marks the connection and reads
\* callView.outStream
addTracksToPeer(L, l) ==
    [L EXCEPT ![l].assertFailed = @ \/ L[l].tracksAdded, ![l].tracksAdded = TRUE]

\* the function establish() queues: a new connection under a fresh uuid4, registered
\* with the view and loaded with the outgoing tracks (which makes the browser fire
\* negotiationneeded, and sendOffer send the offer); the 30 s offering timer is
\* armed last, after addTracksToPeer, which throws when the outgoing stream is gone
establishBody(L, V, v, out) ==
    LET l == Len(L) + 1
    IN  [links |-> addTracksToPeer(Append(L, NewLink(v, l)), l),
         views |-> [V EXCEPT ![v].status = "Calling", ![v].offering = (out # 0)]]

\* variant: every offer is taken as the first for its connection
acceptOfferBeginAlwaysNew(L, V, job) ==
    LET peer == getPeerOf(L, job.view, job.peerId)
    IN  IF peer = 0
        THEN LET l == Len(L) + 1
                 h == bindPeer(Append(L, NewLink(job.view, job.peerId)), V, l)
             IN  [links |-> h.links, views |-> h.views,
                  job |-> [job EXCEPT !.pc = "srd", !.link = l, !.newPeer = TRUE]]
        ELSE [links |-> L, views |-> V,
              job |-> [job EXCEPT !.pc = "srd", !.link = peer, !.newPeer = TRUE]]

\* the function acceptOffer() queues, up to its await of setRemoteDescription
acceptOfferBegin(L, V, job) ==
    LET peer == getPeerOf(L, job.view, job.peerId)
    IN  IF peer = 0
        THEN LET l == Len(L) + 1
                 h == bindPeer(Append(L, NewLink(job.view, job.peerId)), V, l)
             IN  [links |-> h.links, views |-> h.views,
                  job |-> [job EXCEPT !.pc = "srd", !.link = l, !.newPeer = TRUE]]
        ELSE [links |-> L, views |-> V,
              job |-> [job EXCEPT !.pc = "srd", !.link = peer, !.newPeer = FALSE]]

\* F.queueAsync runs the invocations of one queue name one at a time, the oldest
\* first: the head of a bucket is the running one.  runQueue starts the head when
\* it has not started; an invocation that ends without suspending gives way to
\* the next at once.
RECURSIVE runQueue(_, _, _, _)
runQueue(q, L, V, out) ==
    IF q = <<>> \/ Head(q).pc # "wait"
    THEN [queue |-> q, links |-> L, views |-> V]
    ELSE IF Head(q).op = "establish"
         THEN LET h == establishBody(L, V, Head(q).view, out)
              IN  runQueue(Tail(q), h.links, h.views, out)
         ELSE LET h == acceptOfferBegin(L, V, Head(q))
              IN  [queue |-> <<h.job>> \o Tail(q), links |-> h.links, views |-> h.views]

\* variant: the invocation starts at once, whatever runs under its queue name
queueAsyncAtOnce(Q, L, V, out, key, job) ==
    IF job.op = "establish"
    THEN LET h == establishBody(L, V, job.view, out)
         IN  [queues |-> Q, links |-> h.links, views |-> h.views]
    ELSE LET h == acceptOfferBegin(L, V, job)
         IN  [queues |-> [Q EXCEPT ![key] = Append(Q[key], h.job)],
              links |-> h.links, views |-> h.views]

\* F.queueAsync(key, job)
queueAsync(Q, L, V, out, key, job) ==
    LET r == runQueue(Append(Q[key], job), L, V, out)
    IN  [queues |-> [Q EXCEPT ![key] = r.queue], links |-> r.links, views |-> r.views]

\* the running invocation of a bucket ended: the next one starts
queueNext(Q, L, V, out, key) ==
    LET r == runQueue(Tail(Q[key]), L, V, out)
    IN  [queues |-> [Q EXCEPT ![key] = r.queue], links |-> r.links, views |-> r.views]

\* invocations waiting in the buckets; each may make one connection when it starts
Waiting(Q) ==
    Cardinality({<<k, i>> \in (DOMAIN Q) \X (2..(MaxQueue + 1)) : i <= Len(Q[k])})

\* room for one more invocation under key: the bucket is bounded, and a connection
\* is left for it and for every invocation that waits
canQueue(key, needsLink) ==
    /\ Len(queues[key]) <= MaxQueue
    /\ Len(links) + Waiting(queues)
         + (IF needsLink \/ queues[key] # <<>> THEN 1 ELSE 0) <= MaxLinks

\* an establish body ran in this step
establishRan == \E l \in (Len(links) + 1)..Len(links') : links'[l].tracksAdded

(* --------------------------------------------- CallView: signaling handlers *)
\* addMemberView for a remote address
addMemberView(M, V, a) ==
    [memberViews |-> [M EXCEPT ![a] = Len(V) + 1], views |-> Append(V, NewView(a))]

\* getMemberView(...) || addMemberView(...)
canViewFor(a) == memberViews[a] # 0 \/ Len(views) < MaxViews
viewFor(a) ==
    IF memberViews[a] # 0
    THEN [memberViews |-> memberViews, views |-> views]
    ELSE addMemberView(memberViews, views, a)

\* variant: onPeerJoin without the test of isJoined()
OnPeerJoinUnguarded(a, type) ==
    /\ ~removed
    /\ canViewFor(a)
    /\ canQueue(establishKey(a), TRUE)
    /\ LET w == viewFor(a)
           h == queueAsync(queues, links, w.views, outStream, establishKey(a),
                           EstablishJob(w.memberViews[a]))
       IN  /\ memberViews' = w.memberViews
           /\ views' = h.views /\ links' = h.links /\ queues' = h.queues
    /\ last' = (IF establishRan THEN "establish" ELSE "")
    /\ UNCHANGED <<sessVars, incVars, hpa, candVars, extVars>>

\* onPeerJoin: an invitation while not joined, else the member is called
OnPeerJoin(a, type) ==
    /\ ~removed
    /\ IF ~joined
       THEN /\ addIncoming(a, type)
            /\ last' = ""
            /\ UNCHANGED <<memVars, queues>>
       ELSE /\ canViewFor(a)
            /\ canQueue(establishKey(a), TRUE)
            /\ LET w == viewFor(a)
                   h == queueAsync(queues, links, w.views, outStream, establishKey(a),
                                   EstablishJob(w.memberViews[a]))
               IN  /\ memberViews' = w.memberViews
                   /\ views' = h.views /\ links' = h.links /\ queues' = h.queues
            /\ last' = (IF establishRan THEN "establish" ELSE "")
            /\ UNCHANGED incVars
    /\ UNCHANGED <<sessVars, hpa, candVars>>
    /\ UNCHANGED extVars

\* onPeerOffer: the member view is looked up or made, and the offer accepted;
\* type: the type of the description in ev.data.offer
OnPeerOfferOf(a, peerId, type) ==
    /\ ~removed
    /\ canViewFor(a)
    /\ LET w == viewFor(a)
           v == w.memberViews[a]
       IN  /\ canQueue(acceptOfferKey(a), getPeerOf(links, v, peerId) = 0)
           /\ LET h == queueAsync(queues, links, w.views, outStream, acceptOfferKey(a),
                                  AcceptOfferJobOf(v, peerId, type))
              IN  /\ memberViews' = w.memberViews
                  /\ views' = h.views /\ links' = h.links /\ queues' = h.queues
    /\ last' = (IF establishRan THEN "establish" ELSE "")
    /\ UNCHANGED <<sessVars, incVars, hpa, candVars>>
    /\ UNCHANGED extVars

\* onPeerOffer with an offer, which is what sendOffer sends
OnPeerOffer(a, peerId) == OnPeerOfferOf(a, peerId, "offer")

\* onPeerAcceptOffer -> handlePeerAcceptOffer up to its await of setRemoteDescription
OnPeerAcceptOffer(a, peerId) ==
    /\ ~removed
    /\ LET v == memberViews[a]
           l == IF v = 0 THEN 0 ELSE getPeer(v, peerId)
       IN  IF l = 0
           THEN /\ UNCHANGED <<memVars, hpa>>
                /\ last' = ""
           ELSE /\ l \notin hpa
                /\ LET h == bindPeer(links, [views EXCEPT ![v].offering = FALSE], l)
                   IN  links' = h.links /\ views' = h.views
                /\ hpa' = hpa \cup {l}
                /\ last' = ""
                /\ UNCHANGED memberViews
    /\ UNCHANGED <<sessVars, incVars, queues, candVars>>
    /\ UNCHANGED extVars

\* the candidates of one callICECandidates message: the next k to arrive
batchOf(k) == [i \in 1..k |-> Len(arrived) + i]

\* onPeerICECandidates
OnPeerICECandidates(a, peerId, k) ==
    /\ ~removed
    /\ Len(arrived) + k <= MaxCands
    /\ arrived' = arrived \o [i \in 1..k |-> peerId]
    /\ LET v == memberViews[a]
           peer == IF v = 0 THEN 0 ELSE getPeer(v, peerId)
       IN  IF ~joined
           THEN /\ early' = enqueueEarlyICECandidates(early, peerId, batchOf(k))
                /\ last' = ""
                /\ UNCHANGED applied
           ELSE IF peer = 0 \/ ~links[peer].rd
           THEN /\ early' = enqueueEarlyICECandidates(early, peerId, batchOf(k))
                /\ last' = ""
                /\ UNCHANGED applied
           ELSE /\ applied' = [applied EXCEPT ![peerId] = @ \o batchOf(k)]
                /\ last' = ""
                /\ UNCHANGED early
    /\ UNCHANGED <<sessVars, incVars, memVars, taskVars>>
    /\ UNCHANGED extVars

\* onPeerLeave; the session's own view makes memberViews.size 1 when no remote is left
OnPeerLeave(a) ==
    /\ ~removed
    /\ IF ~joined
       THEN /\ removeIncoming(a)
            /\ UNCHANGED <<joined, leaving, nLeaveSent, leaveTask, memVars>>
            /\ last' = ""
       ELSE IF memberViews[a] = 0
       THEN /\ UNCHANGED <<joined, leaving, nLeaveSent, leaveTask, memVars, incVars>>
            /\ last' = ""
       ELSE LET h == removeMemberView(memberViews, links, views, memberViews[a])
            IN  /\ memberViews' = h.memberViews /\ links' = h.links /\ views' = h.views
                /\ IF \A b \in DOMAIN h.memberViews : h.memberViews[b] = 0
                   THEN /\ leave(FALSE, "peer")
                        /\ last' = (IF leaveIgnored THEN "leaveIgnored" ELSE "")
                   ELSE /\ UNCHANGED <<joined, leaving, nLeaveSent, leaveTask, incVars>>
                        /\ last' = ""
    /\ UNCHANGED <<everJoined, joining, joinType, outStream, outVideo, removed, cleaned,
                   joinPc, hiddenPc, hiddenType, nJoinSent, taskVars, candVars>>
    /\ PresenterFollows

(* ------------------------------------- CallMemberView: handshake continuations *)
\* the running acceptOffer of the bucket of a
acceptRunning(a, pc) ==
    /\ queues[acceptOfferKey(a)] # <<>>
    /\ Head(queues[acceptOfferKey(a)]).op = "acceptOffer"
    /\ Head(queues[acceptOfferKey(a)]).pc = pc

\* F.assert(earlyICECandidates.length) on what drainEarlyICECandidates returned
bucketAsserted(d) == d.has => d.bucket # <<>>

\* acceptOffer resumes: setRemoteDescription resolved.  The remote description is
\* an offer; the drained bucket, when there is one, passes the assertion on its
\* length and its candidates are handed to addIceCandidate.
AcceptSrdDone(a) ==
    /\ acceptRunning(a, "srd")
    /\ LET key == acceptOfferKey(a)
           job == Head(queues[key])
           l == job.link
           d == drainEarlyICECandidates(early, job.peerId)
           L1 == [links EXCEPT ![l].rd = TRUE]
       IN  /\ links[l].open
           /\ isOffer(job)
           /\ bucketAsserted(d)
           /\ links' = IF job.newPeer THEN addTracksToPeer(L1, l) ELSE L1
           /\ early' = d.map
           /\ applied' = [applied EXCEPT ![job.peerId] = @ \o d.bucket]
           /\ queues' = [queues EXCEPT ![key] = <<[job EXCEPT !.pc = "ans"]>> \o Tail(@)]
           /\ last' = (IF d.has THEN "drained" ELSE "")
    /\ UNCHANGED <<sessVars, incVars, memberViews, views, hpa, arrived>>
    /\ UNCHANGED extVars

\* acceptOffer resumes: the answer is set, callAcceptOffer is sent; the function
\* returns and the next invocation of the bucket starts
AcceptAnsDone(a) ==
    /\ acceptRunning(a, "ans")
    /\ LET key == acceptOfferKey(a)
           job == Head(queues[key])
           h == queueNext(queues, links, views, outStream, key)
       IN  /\ links[job.link].open
           /\ queues' = h.queues /\ links' = h.links /\ views' = h.views
    /\ last' = (IF establishRan THEN "establish" ELSE "")
    /\ UNCHANGED <<sessVars, incVars, memberViews, hpa, candVars>>
    /\ UNCHANGED extVars

\* acceptOffer resumes with a rejection (of setRemoteDescription, addIceCandidate,
\* createAnswer or setLocalDescription; a closed connection rejects them all)
AcceptFail(a) ==
    /\ acceptRunning(a, "srd") \/ acceptRunning(a, "ans")
    /\ LET h == queueNext(queues, links, views, outStream, acceptOfferKey(a))
       IN  queues' = h.queues /\ links' = h.links /\ views' = h.views
    /\ last' = (IF establishRan THEN "establish" ELSE "")
    /\ UNCHANGED <<sessVars, incVars, memberViews, hpa, candVars>>
    /\ UNCHANGED extVars

\* acceptOffer resumes: setRemoteDescription resolved, the tracks are added to a
\* new connection, the entry of the peer id is drained, and the F.assert on the
\* bucket's length throws: no answer is made, the function ends and the next
\* invocation of the bucket starts
AcceptEmptyBucket(a) ==
    /\ acceptRunning(a, "srd")
    /\ LET key == acceptOfferKey(a)
           job == Head(queues[key])
           l == job.link
           d == drainEarlyICECandidates(early, job.peerId)
           L1 == [links EXCEPT ![l].rd = TRUE]
           L2 == IF job.newPeer THEN addTracksToPeer(L1, l) ELSE L1
           h == queueNext(queues, L2, views, outStream, key)
       IN  /\ links[l].open
           /\ isOffer(job)
           /\ ~bucketAsserted(d)
           /\ early' = d.map
           /\ queues' = h.queues /\ links' = h.links /\ views' = h.views
    /\ last' = (IF establishRan THEN "establish" ELSE "")
    /\ UNCHANGED <<sessVars, incVars, memberViews, hpa, applied, arrived>>
    /\ UNCHANGED extVars

\* acceptOffer resumes: setRemoteDescription resolved for a description that is
\* no offer (an answer to the offer the connection made), and the F.assert on its
\* type throws; the function ends and the next invocation of the bucket starts
AcceptNotOffer(a) ==
    /\ acceptRunning(a, "srd")
    /\ LET key == acceptOfferKey(a)
           job == Head(queues[key])
           l == job.link
           L1 == [links EXCEPT ![l].rd = TRUE]
           h == queueNext(queues, L1, views, outStream, key)
       IN  /\ links[l].open /\ links[l].tracksAdded /\ ~job.newPeer
           /\ ~isOffer(job)
           /\ queues' = h.queues /\ links' = h.links /\ views' = h.views
    /\ last' = (IF establishRan THEN "establish" ELSE "")
    /\ UNCHANGED <<sessVars, incVars, memberViews, hpa, candVars>>
    /\ UNCHANGED extVars

\* handlePeerAcceptOffer resumes: setRemoteDescription resolved; the entry of the
\* peer id is drained and its candidates handed to addIceCandidate (an empty bucket
\* fails the F.assert on its length, after which nothing of the state is left to do)
HpaSrdDone(l) ==
    /\ l \in hpa
    /\ links[l].open
    /\ LET d == drainEarlyICECandidates(early, links[l].id)
       IN  /\ links' = [links EXCEPT ![l].rd = TRUE]
           /\ early' = d.map
           /\ applied' = [applied EXCEPT ![links[l].id] = @ \o d.bucket]
           /\ last' = (IF d.has THEN "drained" ELSE "")
    /\ hpa' = hpa \ {l}
    /\ UNCHANGED <<sessVars, incVars, memberViews, views, queues, arrived>>
    /\ UNCHANGED extVars

\* handlePeerAcceptOffer resumes with a rejection
HpaFail(l) ==
    /\ l \in hpa
    /\ hpa' = hpa \ {l}
    /\ last' = ""
    /\ UNCHANGED <<sessVars, incVars, memVars, queues, candVars>>
    /\ UNCHANGED extVars

(* -------------------------------------------- connection events of the browser *)
\* the browser moves the ICE connection state of an open connection; connecting
\* takes a remote description.  The view's iceconnectionstatechange listener acts
\* only for the streaming connection.
iceNextOf(ice, rd) ==
    CASE ice = "new"          -> IF rd THEN {"connected"} ELSE {}
      [] ice = "connected"    -> {"completed", "disconnected"}
      [] ice = "completed"    -> {"disconnected"}
      [] ice = "disconnected" -> {"connected"}
      [] OTHER                -> {}

iceNext(l) == iceNextOf(links[l].ice, links[l].rd)

IceChange(l, state) ==
    /\ links[l].open
    /\ state \in iceNext(l)
    /\ links' = [links EXCEPT ![l].ice = state]
    /\ LET v == links[l].view
       IN  views' = IF links[l].bound /\ views[v].streamingPeer = l
                    THEN updateStream(links', setStatus(views, v, state), v, l)
                    ELSE views
    /\ last' = ""
    /\ UNCHANGED <<sessVars, incVars, memberViews, taskVars, candVars>>
    /\ UNCHANGED extVars

\* the view's track listener, and the mute, unmute and ended listeners it puts on
\* the tracks: each renders the connection's stream; media: an enabled track that
\* is not muted is left in it
TrackEvent(l, media) ==
    /\ links[l].open /\ links[l].bound /\ links[l].rd
    /\ links' = [links EXCEPT ![l].media = media]
    /\ views' = updateStream(links', views, links[l].view, l)
    /\ last' = ""
    /\ UNCHANGED <<sessVars, incVars, memberViews, taskVars, candVars>>
    /\ UNCHANGED extVars

\* the mute listener the track listener put on a received track, run for a track
\* of a connection that removePeer has closed: unbindPeer takes the listeners off
\* the connection, the ones on its tracks stay and render the connection's stream
LateTrackEvent(l) ==
    /\ ~links[l].open /\ links[l].media
    /\ links' = [links EXCEPT ![l].media = FALSE]
    /\ views' = updateStream(links', views, links[l].view, l)
    /\ last' = ""
    /\ UNCHANGED <<sessVars, incVars, memberViews, taskVars, candVars>>
    /\ UNCHANGED extVars

\* the 30 s offering timer of establish
OfferingFire(v) ==
    /\ views[v].offering
    /\ views' = [setStatus(views, v, "Unavailable") EXCEPT ![v].offering = FALSE]
    /\ last' = ""
    /\ UNCHANGED <<sessVars, incVars, memberViews, links, taskVars, candVars>>
    /\ UNCHANGED extVars

(* ------------------------------------------------ CallMemberView: peerCheck *)
\* peer.getTransceivers() is not empty: peerCheck awaits getStats for the peer
hasTransceivers(L, l) == L[l].tracksAdded \/ L[l].rd

\* variant: no filter
connectedOfAll(L, peers) == peers

\* peers.filter(x => x.isConnected())
connectedOf(L, peers) == {l \in peers : isConnected(L[l].ice)}

\* the peers isStale() can report: not connected; the 30 s are up or not
canBeStale(L, peers) == {l \in peers : ~isConnected(L[l].ice)}

Timer(kind, l) == [kind |-> kind, link |-> l]

\* _schedPeerActionSoon for a set of callbacks
schedPeerActionSoon(V, v, ts) ==
    IF ts = {} THEN V
    ELSE [V EXCEPT ![v].peerActionTimeout = TRUE, ![v].timers = @ \cup ts]

\* the largest / smallest of a set of connections: peers are kept in the order added
newest(S) == CHOOSE l \in S : \A m \in S : m <= l
oldest(S) == CHOOSE l \in S : \A m \in S : l <= m

\* variant: no recheck is scheduled for a member without connections
peerCheckRestNoRecheck(L, V, v, peers, stale) ==
    IF V[v].peerActionTimeout \/ peers = {} THEN V
    ELSE LET V1 == schedPeerActionSoon(V, v, {Timer("stale", l) : l \in stale})
             connected == connectedOf(L, peers)
             V2 == IF connected # {} /\ V1[v].streamingPeer = 0
                   THEN updateStream(L, V1, v, newest(connected)) ELSE V1
             others == connected \ {V2[v].streamingPeer}
         IN  IF Cardinality(connected) > 1 /\ others # {}
             THEN schedPeerActionSoon(V2, v, {Timer("redundant", oldest(others))})
             ELSE V2

\* peerCheck after the statistics are collected, over the peers it took at its start
peerCheckRest(L, V, v, peers, stale) ==
    IF V[v].peerActionTimeout THEN V
    ELSE IF peers = {} THEN schedPeerActionSoon(V, v, {Timer("zero", 0)})
    ELSE LET V1 == schedPeerActionSoon(V, v, {Timer("stale", l) : l \in stale})
             connected == connectedOf(L, peers)
             V2 == IF connected # {} /\ V1[v].streamingPeer = 0
                   THEN updateStream(L, V1, v, newest(connected)) ELSE V1
             others == connected \ {V2[v].streamingPeer}
         IN  IF Cardinality(connected) > 1 /\ others # {}
             THEN schedPeerActionSoon(V2, v, {Timer("redundant", oldest(others))})
             ELSE V2

\* the reconciliation pass made a connection the streaming one in this step
peerCheckBound(v) ==
    /\ views'[v].streamingPeer # views[v].streamingPeer
    /\ views'[v].streamingPeer # 0

\* the 1 s interval of a remote member view: peerCheck up to its first await
PeerCheck(v) ==
    /\ views[v].registered /\ ~views[v].checking
    /\ LET peers == getPeers(v)
       IN  IF \E l \in peers : hasTransceivers(links, l)
           THEN /\ views' = [views EXCEPT ![v].checking = TRUE, ![v].snapshot = peers]
                /\ last' = ""
           ELSE /\ \E stale \in SUBSET canBeStale(links, peers) :
                       views' = peerCheckRest(links, views, v, peers, stale)
                /\ last' = (IF peerCheckBound(v) THEN "peerCheckBind" ELSE "")
    /\ UNCHANGED <<sessVars, incVars, memberViews, links, taskVars, candVars>>
    /\ UNCHANGED extVars

\* peerCheck resumes: the statistics are in
PeerCheckResume(v) ==
    /\ views[v].checking
    /\ \E stale \in SUBSET canBeStale(links, views[v].snapshot) :
           views' = peerCheckRest(links,
                                  [views EXCEPT ![v].checking = FALSE, ![v].snapshot = {}],
                                  v, views[v].snapshot, stale)
    /\ last' = (IF peerCheckBound(v) THEN "peerCheckBind" ELSE "")
    /\ UNCHANGED <<sessVars, incVars, memberViews, links, taskVars, candVars>>
    /\ UNCHANGED extVars

\* variant: the stale callback does not look at the connection again
staleStillUnchecked(L, l) == TRUE

\* the stale callback's test when it runs: !peer.isConnected()
staleStill(L, l) == ~isConnected(L[l].ice)

\* variant: the redundant callback does not look at the streaming connection again
redundantStillUnchecked(V, v, l) == TRUE

\* the redundant callback's test when it runs: peer !== this.streamingPeer
redundantStill(V, v, l) == l # V[v].streamingPeer

\* a timer of _schedPeerActionSoon fires: the callback, then _peerActionTimeout = null.
\* old: more than 60 s passed since the view's stream last changed.
TimerFire(v, t, old) ==
    /\ t \in views[v].timers
    /\ LET V0 == [views EXCEPT ![v].peerActionTimeout = FALSE, ![v].timers = @ \ {t}]
           a == views[v].addr
       IN  CASE t.kind = "zero" /\ getPeers(v) = {} /\ old ->
                    IF memberViews[a] = v
                    THEN LET h == removeMemberView(memberViews, links, V0, v)
                         IN  /\ memberViews' = h.memberViews /\ links' = h.links
                             /\ views' = h.views
                             /\ UNCHANGED queues
                             /\ last' = ""
                    ELSE /\ views' = V0
                         /\ UNCHANGED <<memberViews, links, queues>>
                         /\ last' = ""
              [] t.kind = "zero" /\ getPeers(v) = {} /\ ~old ->
                    /\ canQueue(establishKey(a), TRUE)
                    /\ LET h == queueAsync(queues, links, V0, outStream, establishKey(a),
                                           EstablishJob(v))
                       IN  views' = h.views /\ links' = h.links /\ queues' = h.queues
                    /\ UNCHANGED memberViews
                    /\ last' = (IF establishRan THEN "establish" ELSE "")
              [] t.kind = "stale" /\ staleStill(links, t.link) ->
                    /\ LET h == removePeer(links, V0, t.link)
                       IN  links' = h.links /\ views' = h.views
                    /\ UNCHANGED <<memberViews, queues>>
                    /\ last' = (IF links[t.link].open /\ views[v].streamingPeer = t.link
                                THEN "removedStreaming" ELSE "")
              [] t.kind = "redundant" /\ redundantStill(views, v, t.link) ->
                    /\ LET h == removePeer(links, V0, t.link)
                       IN  links' = h.links /\ views' = h.views
                    /\ UNCHANGED <<memberViews, queues>>
                    /\ last' = ""
              [] OTHER ->
                    /\ views' = V0
                    /\ UNCHANGED <<memberViews, links, queues>>
                    /\ last' = ""
    /\ UNCHANGED <<sessVars, incVars, hpa, candVars>>
    /\ PresenterFollows

(* ---------------------------------------------------------- limitSDPBandwidth *)
\* a session description is [type, sdp], sdp the lines of its text (the text split
\* at \r\n); a line is [k, n]: k its leading characters up to the colon, n the
\* number after the colon of a b= line (0 on the other lines)
Line(k, n) == [k |-> k, n |-> n]

startsWithB(line) == line.k \in {"b=AS", "b=TIAS"}
startsWithBAS(line) == line.k = "b=AS"
startsWithM(line) == line.k \in {"m=video", "m=audio"}
startsWithMVideo(line) == line.k = "m=video"
startsWithCIN(line) == line.k = "c=IN"

\* sdp.splice(i, 1)
spliceOut(sdp, i) == SubSeq(sdp, 1, i - 1) \o SubSeq(sdp, i + 1, Len(sdp))

\* sdp.splice(i + 1, 0, x); sdp.splice(i + 2, 0, y)
spliceIn(sdp, i, x, y) == SubSeq(sdp, 1, i) \o <<x, y>> \o SubSeq(sdp, i + 1, Len(sdp))

\* Math.round(x / 1024) of a number that is not negative
roundKbps(x) == (x + 512) \div 1024

\* variant: the first loop stays on the index it spliced a line out of
RECURSIVE scanBitratesNoSkip(_, _, _, _)
scanBitratesNoSkip(sdp, i, videoOffset, bandwidth) ==
    IF i > Len(sdp)
    THEN [sdp |-> sdp, videoOffset |-> videoOffset, bandwidth |-> bandwidth]
    ELSE LET line == sdp[i]
         IN  IF videoOffset # 0
             THEN IF startsWithB(line)
                  THEN LET adjust == IF startsWithBAS(line) THEN 1024 ELSE 1
                           bps == line.n * adjust
                       IN  scanBitratesNoSkip(spliceOut(sdp, i), i, videoOffset,
                                              IF bandwidth = 0 \/ bps < bandwidth
                                              THEN bps ELSE bandwidth)
                  ELSE IF startsWithM(line)
                  THEN [sdp |-> sdp, videoOffset |-> videoOffset, bandwidth |-> bandwidth]
                  ELSE scanBitratesNoSkip(sdp, i + 1, videoOffset, bandwidth)
             ELSE IF startsWithMVideo(line)
                  THEN scanBitratesNoSkip(sdp, i + 1, i + 1, bandwidth)
                  ELSE scanBitratesNoSkip(sdp, i + 1, videoOffset, bandwidth)

\* the first loop of limitSDPBandwidth from index i on (indices from 1); videoOffset
\* 0: undefined; bandwidth 0: none (falsy).  A b= line of the video section is
\* spliced out and the index still moves on, past the line that took its place.
RECURSIVE scanBitrates(_, _, _, _)
scanBitrates(sdp, i, videoOffset, bandwidth) ==
    IF i > Len(sdp)
    THEN [sdp |-> sdp, videoOffset |-> videoOffset, bandwidth |-> bandwidth]
    ELSE LET line == sdp[i]
         IN  IF videoOffset # 0
             THEN IF startsWithB(line)
                  THEN LET adjust == IF startsWithBAS(line) THEN 1024 ELSE 1
                           bps == line.n * adjust
                       IN  scanBitrates(spliceOut(sdp, i), i + 1, videoOffset,
                                        IF bandwidth = 0 \/ bps < bandwidth
                                        THEN bps ELSE bandwidth)
                  ELSE IF startsWithM(line)
                  THEN [sdp |-> sdp, videoOffset |-> videoOffset, bandwidth |-> bandwidth]
                  ELSE scanBitrates(sdp, i + 1, videoOffset, bandwidth)
             ELSE IF startsWithMVideo(line)
                  THEN scanBitrates(sdp, i + 1, i + 1, bandwidth)
                  ELSE scanBitrates(sdp, i + 1, videoOffset, bandwidth)

\* the second loop: the two bitrate lines go in after the first c=IN line from
\* index i on; no line goes in when there is none
RECURSIVE insertBitrates(_, _, _)
insertBitrates(sdp, i, bandwidth) ==
    IF i > Len(sdp) THEN sdp
    ELSE IF startsWithCIN(sdp[i])
         THEN spliceIn(sdp, i, Line("b=TIAS", bandwidth), Line("b=AS", roundKbps(bandwidth)))
         ELSE insertBitrates(sdp, i + 1, bandwidth)

limitSDPBandwidth(d, bandwidth) ==
    LET s == scanBitrates(d.sdp, 1, 0, bandwidth)
    IN  [type |-> d.type,
         sdp |-> IF s.bandwidth # 0 /\ s.videoOffset # 0
                 THEN insertBitrates(s.sdp, s.videoOffset, s.bandwidth)
                 ELSE s.sdp]

\* the bitrate lines a media section can come with
BitrateLines ==
    LET as == Line("b=AS", 1953)
        tias == Line("b=TIAS", 500000)
    IN  {<<>>, <<as>>, <<tias>>, <<tias, as>>, <<as, tias>>}

\* the media sections: the m= line, then the optional c=, b= and a= lines in the
\* order of the session description grammar
Sections(m) ==
    {<<Line(m, 0)>> \o c \o b \o a :
        c \in {<<>>, <<Line("c=IN", 0)>>}, b \in BitrateLines, a \in {<<>>, <<Line("a=", 0)>>}}

hasVideo(sdp) == \E i \in 1..Len(sdp) : startsWithMVideo(sdp[i])

\* the texts of up to n media sections after the session part, one video section
\* at most
RECURSIVE Texts(_)
Texts(n) ==
    IF n = 0 THEN {<<Line("v=", 0)>>}
    ELSE Texts(n - 1)
         \cup {t \o x : t \in Texts(n - 1), x \in Sections("m=audio")}
         \cup {t \o x : t \in {u \in Texts(n - 1) : ~hasVideo(u)}, x \in Sections("m=video")}

Descriptions == [type : {"offer", "answer"}, sdp : Texts(MaxSections)]

\* a description comes out of createOffer or createAnswer
InitSdpAny ==
    /\ offer \in Descriptions
    /\ ceilings = <<>>
    /\ desc = offer

\* limitSDPBandwidth(desc, bandwidth): by sendOffer and acceptOffer on what
\* createOffer and createAnswer return, by acceptOffer and handlePeerAcceptOffer on
\* the description the remote side sent
LimitDescription(bandwidth) ==
    /\ Len(ceilings) < MaxLimits
    /\ ceilings' = Append(ceilings, bandwidth)
    /\ desc' = limitSDPBandwidth(desc, bandwidth)
    /\ last' = ""
    /\ UNCHANGED <<callVars, clock, staleVars, offer, presVars, trxVars>>

(* ------------------------------------------- CallView: replaceMembersOutTrack *)
\* a transceiver: stopped; recv: the kind of receiver.track ("none": no track);
\* direction; sends: its sender's track is the new one
Transceiver(stopped, recv, direction) ==
    [stopped |-> stopped, recv |-> recv, direction |-> direction, sends |-> FALSE]

Transceivers ==
    {Transceiver(st, r, d) : st \in BOOLEAN, r \in Kinds \cup {"none"},
                             d \in {"sendrecv", "recvonly"}}

\* !t.stopped && recvTrackKind === track.kind
matches(t, kind) == ~t.stopped /\ t.recv = kind

\* the loop over the transceivers of one connection
replaceOnPeer(ts, kind) ==
    [i \in DOMAIN ts |->
        IF matches(ts[i], kind)
        THEN [ts[i] EXCEPT !.direction = "sendrecv", !.sends = TRUE]
        ELSE ts[i]]

\* 'replaced' after the loop over the transceivers of one connection
replacedOn(ts, kind) == \E i \in DOMAIN ts : matches(ts[i], kind)

\* replaceMembersOutTrack(track) from connection i of P on, the connections of all
\* member views in the order of the loops: the first connection without a matching
\* transceiver throws, and the connections after it are not reached
RECURSIVE replaceFrom(_, _, _)
replaceFrom(P, kind, i) ==
    IF i > Len(P) THEN [peers |-> P, threw |-> FALSE]
    ELSE IF ~replacedOn(P[i], kind) THEN [peers |-> P, threw |-> TRUE]
    ELSE replaceFrom([P EXCEPT ![i] = replaceOnPeer(P[i], kind)], kind, i + 1)

replaceMembersOutTrack(P, kind) == replaceFrom(P, kind, 1)

\* the connections of the members as a call of replaceMembersOutTrack finds them
SeqsUpTo(S, n) == UNION {[1..k -> S] : k \in 0..n}

InitTransceiversAny ==
    /\ transceivers \in SeqsUpTo(SeqsUpTo(Transceivers, MaxTransceivers), MaxPeers)
    /\ replaced = [kind |-> "none", threw |-> FALSE]

\* replaceMembersOutTrack(track) with a track of this kind
ReplaceMembersOutTrack(kind) ==
    /\ replaced.kind = "none"
    /\ LET h == replaceMembersOutTrack(transceivers, kind)
       IN  /\ transceivers' = h.peers
           /\ replaced' = [kind |-> kind, threw |-> h.threw]
    /\ last' = ""
    /\ UNCHANGED <<callVars, clock, staleVars, sdpVars, presVars>>

(* ------------------------------------------------------ CallView: the presenter *)
\* variant: checkSoundLevels without the test of isPinned()
policySkipsPinBlind(pres, P, lastSwitch, now) ==
    lastSwitch # 0 /\ now - lastSwitch < Hysteresis

\* checkSoundLevels returns before it looks at the sound levels
policySkips(pres, P, lastSwitch, now) ==
    \/ pres \in P
    \/ lastSwitch # 0 /\ now - lastSwitch < Hysteresis

\* the first render(): selectPresenter(this.outView)
Render ==
    /\ presenting = 0
    /\ presenting' = outView
    /\ last' = ""
    /\ UNCHANGED <<callVars, clock, staleVars, sdpVars, trxVars, lastPresenterSwitch, pinned,
                   soundChecks, switchedAt>>

\* a signaling handler makes the member view of address a: addMemberView
AddMember(a) ==
    /\ memberViews[a] = 0 /\ Len(views) < MaxMembers
    /\ LET w == addMemberView(memberViews, views, a)
       IN  memberViews' = w.memberViews /\ views' = w.views
    /\ last' = ""
    /\ UNCHANGED <<sessVars, incVars, links, taskVars, candVars, extVars>>

\* removeMemberView of the view of address a: the view leaves memberViews, a new
\* presenter is selected when it was the presenter, then the view is removed
RemoveMember(a) ==
    /\ memberViews[a] # 0
    /\ LET v == memberViews[a]
           h == removeMemberView(memberViews, links, views, v)
       IN  memberViews' = h.memberViews /\ links' = h.links /\ views' = h.views
    /\ last' = ""
    /\ UNCHANGED <<sessVars, incVars, taskVars, candVars>>
    /\ PresenterFollows

\* a click on member view x: togglePinned(true), then onMemberPinned unpins the
\* other views and selects x as the presenter
PinClick(x) ==
    /\ presenting # 0
    /\ x \in {outView} \cup remoteViews(memberViews)
    /\ pinned' = {x}
    /\ presenting' = x
    /\ last' = ""
    /\ UNCHANGED <<callVars, clock, staleVars, sdpVars, trxVars, lastPresenterSwitch,
                   soundChecks, switchedAt>>

\* the sound meter of member view v reports averageRms r
SoundLevel(v, r) ==
    /\ v \in remoteViews(memberViews)
    /\ views' = [views EXCEPT ![v].soundRMS = r]
    /\ last' = ""
    /\ UNCHANGED <<sessVars, incVars, memberViews, links, taskVars, candVars, extVars>>

\* the interval of setup() fires, Interval after it fired last: checkSoundLevels up
\* to its await of selectPresenter (which sets _presenting before its own await)
SoundCheck ==
    /\ clock + Interval <= Epoch + MaxTicks * Interval
    /\ soundChecks < MaxChecks
    /\ clock' = clock + Interval
    /\ LET memberView == getMostPresentableMemberView(memberViews, views, presenting)
       IN  IF presenting = 0
           THEN /\ last' = ""
                /\ UNCHANGED <<presenting, soundChecks, switchedAt>>
           ELSE IF policySkips(presenting, pinned, lastPresenterSwitch, clock')
           THEN /\ last' = (IF /\ presenting \in pinned
                               /\ ~policySkips(presenting, {}, lastPresenterSwitch, clock')
                               /\ memberView # presenting
                            THEN "pinnedKept" ELSE "")
                /\ UNCHANGED <<presenting, soundChecks, switchedAt>>
           ELSE IF presenting # memberView
           THEN /\ presenting' = memberView
                /\ soundChecks' = soundChecks + 1
                /\ switchedAt' = clock'
                /\ last' = "policySwitch"
           ELSE /\ last' = "policyKept"
                /\ UNCHANGED <<presenting, soundChecks, switchedAt>>
    /\ UNCHANGED <<callVars, staleVars, sdpVars, trxVars, lastPresenterSwitch, pinned>>

\* checkSoundLevels resumes: selectPresenter is through (presenterView.select has
\* rendered), this._lastPresenterSwitch = Date.now()
SoundCheckResume ==
    /\ soundChecks > 0
    /\ soundChecks' = soundChecks - 1
    /\ lastPresenterSwitch' = clock
    /\ last' = ""
    /\ UNCHANGED <<callVars, clock, staleVars, sdpVars, trxVars, presenting, pinned, switchedAt>>

\* the order in which the members of InitSelect were added
JoinOrder == <<"u1.1", "u2.1", "u3.1">>

\* three members are in the call, their sound meters have reported, and any of
\* them or the session's own view is presented
InitSelect ==
    /\ \E r \in [DOMAIN JoinOrder -> Levels] :
          InitCallOf([a \in MemberAddrs |-> CHOOSE v \in DOMAIN JoinOrder : JoinOrder[v] = a],
                     [v \in DOMAIN JoinOrder |->
                          [NewView(JoinOrder[v]) EXCEPT !.soundRMS = r[v]]])
    /\ clock = Epoch
    /\ InitProbe /\ InitSdp /\ InitTransceivers
    /\ lastPresenterSwitch = 0 /\ pinned = {} /\ soundChecks = 0 /\ switchedAt = 0
    /\ presenting \in {outView} \cup (DOMAIN JoinOrder)

(* --------------------------------------- one connection and the clock: isStale *)
\* time passes
Tick(d) ==
    /\ clock + d <= MaxClock
    /\ clock' = clock + d
    /\ staleSeen' = "none"
    /\ last' = ""
    /\ UNCHANGED <<callVars, probe, sdpVars, trxVars, presVars>>

\* time passes, up to the moment the armed timer is due
TickIncoming(d) ==
    /\ clearIncomingTimeout => clock + d <= clearIncomingDue
    /\ Tick(d)

\* the ICE connection state of the watched connection changes (its remote
\* description is set); the view's iceconnectionstatechange listener stamps
\* _meta.connected when the new state is a connected one
ProbeIce(state) ==
    /\ state \in iceNextOf(probe.ice, TRUE)
    /\ probe' = [probe EXCEPT !.ice = state,
                              !.connected = IF isConnected(state) THEN clock ELSE @]
    /\ staleSeen' = "none"
    /\ last' = ""
    /\ UNCHANGED <<callVars, clock, sdpVars, trxVars, presVars>>

\* peerCheck asks the watched connection isStale()
ProbeCheck ==
    /\ staleSeen' = (IF isStale(probe, clock) THEN "stale" ELSE "fresh")
    /\ last' = ""
    /\ UNCHANGED <<callVars, clock, probe, sdpVars, trxVars, presVars>>

(* ------------------------------------------------------------ specifications *)
JoinStep ==
    \/ \E t \in JoinTypes : JoinClick(t)
    \/ IncomingAccept
    \/ ClearIncoming
    \/ JoinSendOk
    \/ JoinSendFail

LeaveStep ==
    \/ LeaveClick
    \/ LeaveSendOk
    \/ LeaveSendFail
    \/ \E ok \in BOOLEAN : LeaveBindDone(ok)

MemberStep ==
    \/ \E a \in Addrs, t \in JoinTypes : OnPeerJoin(a, t)
    \/ \E a \in Addrs : OnPeerLeave(a)
    \/ \E a \in Addrs, peerId \in KnownIds : OnPeerOffer(a, peerId)

AnswerStep ==
    \E a \in Addrs, peerId \in KnownIds : OnPeerAcceptOffer(a, peerId)

CandidateStep ==
    \E a \in Addrs, peerId \in KnownIds, k \in 1..MaxCands : OnPeerICECandidates(a, peerId, k)

AcceptStep ==
    \/ \E a \in Addrs : AcceptSrdDone(a)
    \/ \E a \in Addrs : AcceptAnsDone(a)
    \/ \E a \in Addrs : AcceptFail(a)

HpaStep ==
    \/ \E l \in Lids : HpaSrdDone(l)
    \/ \E l \in Lids : HpaFail(l)

LinkStep ==
    \/ \E l \in Lids, state \in IceStates : IceChange(l, state)
    \/ \E l \in Lids, media \in BOOLEAN : TrackEvent(l, media)
    \/ \E v \in Vids : OfferingFire(v)

CheckStep ==
    \/ \E v \in Vids : PeerCheck(v)
    \/ \E v \in Vids : PeerCheckResume(v)
    \/ \E v \in Vids, old \in BOOLEAN : \E t \in views[v].timers : TimerFire(v, t, old)

\* the session with its members coming and going: first offers are taken but none
\* is answered, no link event, no candidate
NextSession ==
    IF hiddenPc = "join" THEN HiddenJoin
    ELSE \/ JoinStep \/ LeaveStep \/ OnHidden \/ Remove
         \/ \E a \in Addrs, t \in JoinTypes : OnPeerJoin(a, t)
         \/ \E a \in Addrs : OnPeerLeave(a)
         \/ \E a \in Addrs : OnPeerOffer(a, RemoteId)

SpecSession == Init /\ [][NextSession]_vars

\* the handshakes and the candidates of a video session that is joined and left
NextCand ==
    \/ JoinClick("video")
    \/ JoinSendOk
    \/ LeaveClick \/ LeaveSendOk \/ LeaveBindDone(TRUE)
    \/ \E a \in Addrs : joined /\ OnPeerJoin(a, "video")
    \/ \E a \in Addrs, peerId \in KnownIds : OnPeerOffer(a, peerId)
    \/ AnswerStep \/ CandidateStep
    \/ AcceptStep \/ HpaStep

SpecCand == Init /\ [][NextCand]_vars

\* the handshake invocations of the members of a video session that stays joined
NextQueue ==
    \/ JoinClick("video")
    \/ JoinSendOk
    \/ \E a \in Addrs : joined /\ OnPeerJoin(a, "video")
    \/ \E a \in Addrs, peerId \in KnownIds : joined /\ OnPeerOffer(a, peerId)
    \/ AnswerStep
    \/ AcceptStep \/ HpaStep

SpecQueue == Init /\ [][NextQueue]_vars

\* the links of the members of a video session, as offers and renegotiation offers
\* are accepted, the connections come and go, peerCheck runs, and the member leaves
NextLink ==
    \/ JoinClick("video")
    \/ JoinSendOk
    \/ \E a \in Addrs : joined /\ OnPeerJoin(a, "video")
    \/ \E a \in Addrs : joined /\ OnPeerLeave(a)
    \/ \E a \in Addrs, peerId \in KnownIds : joined /\ OnPeerOffer(a, peerId)
    \/ AcceptStep
    \/ \E l \in Lids, state \in IceStates : IceChange(l, state)
    \/ \E l \in Lids, media \in BOOLEAN : TrackEvent(l, media)
    \/ CheckStep

SpecLink == Init /\ [][NextLink]_vars

\* one connection from addPeer on, its ICE state changing as time passes, asked
\* isStale() at any moment
NextStale ==
    \/ \E d \in StaleTicks : Tick(d)
    \/ \E state \in IceStates : ProbeIce(state)
    \/ ProbeCheck

SpecStale == Init /\ [][NextStale]_vars

\* a session description and the limitSDPBandwidth calls made on it
NextSdp == \E bandwidth \in Ceilings : LimitDescription(bandwidth)

InitDescription ==
    /\ InitCall(Addrs)
    /\ clock = Epoch
    /\ InitProbe /\ InitSdpAny /\ InitPresenter /\ InitTransceivers

SpecSdp == InitDescription /\ [][NextSdp]_vars

\* the invitations of a session that has not joined: join and leave announcements
\* of the inviters, the accept and ignore buttons, the 45 s timer
NextIncoming ==
    \/ \E a \in Inviters, t \in JoinTypes : ~joined /\ OnPeerJoin(a, t)
    \/ \E a \in Inviters : ~joined /\ OnPeerLeave(a)
    \/ IncomingAccept
    \/ ClearIncoming
    \/ JoinSendOk
    \/ JoinSendFail
    \/ IncomingTimerFire
    \/ \E d \in IncomingTicks : TickIncoming(d)

SpecIncoming == Init /\ [][NextIncoming]_vars

\* a member of a video session whose connections never connect: they go stale and
\* are removed, the member is rechecked, called again or dropped, and joins again
NextRecheck ==
    \/ JoinClick("video")
    \/ JoinSendOk
    \/ \E a \in Addrs : joined /\ OnPeerJoin(a, "video")
    \/ \E v \in Vids : OfferingFire(v)
    \/ CheckStep

\* the 1 s interval of a member view keeps calling peerCheck, getStats resolves, and
\* a timer of _schedPeerActionSoon fires within 4 s
FairRecheck ==
    \A v \in 1..MaxViews :
        /\ WF_vars(v \in Vids /\ PeerCheck(v))
        /\ WF_vars(v \in Vids /\ PeerCheckResume(v))
        /\ WF_vars(v \in Vids /\ \E old \in BOOLEAN :
                                     \E t \in views[v].timers : TimerFire(v, t, old))

SpecRecheck == Init /\ [][NextRecheck]_vars /\ FairRecheck

\* the offers of a joined video session: members are called and call, offers are
\* answered on both sides, connections connect, and the offering timer runs out
NextOffer ==
    \/ JoinClick("video")
    \/ JoinSendOk
    \/ \E a \in Addrs : joined /\ OnPeerJoin(a, "video")
    \/ \E a \in Addrs, peerId \in KnownIds : joined /\ OnPeerOffer(a, peerId)
    \/ AnswerStep
    \/ AcceptStep \/ HpaStep
    \/ \E l \in Lids, state \in IceStates : IceChange(l, state)
    \/ \E v \in Vids : OfferingFire(v)

SpecOffer == Init /\ [][NextOffer]_vars

\* callOffer messages with a description of either type reach the members of a
\* joined video session, and acceptOffer runs on them
DescriptionStep ==
    \/ \E a \in Addrs, peerId \in KnownIds, type \in DescTypes :
           joined /\ OnPeerOfferOf(a, peerId, type)
    \/ \E a \in Addrs : AcceptNotOffer(a)

NextAnswer ==
    \/ JoinClick("video")
    \/ JoinSendOk
    \/ \E a \in Addrs : joined /\ OnPeerJoin(a, "video")
    \/ DescriptionStep
    \/ AcceptStep

SpecAnswer == Init /\ [][NextAnswer]_vars

\* one call of replaceMembersOutTrack on any connections
NextReplace == \E kind \in Kinds : ReplaceMembersOutTrack(kind)

InitReplace ==
    /\ InitCall(Addrs)
    /\ clock = Epoch
    /\ InitProbe /\ InitSdp /\ InitPresenter /\ InitTransceiversAny

SpecReplace == InitReplace /\ [][NextReplace]_vars

\* two remote parties of a video session: they join and are called, answer with
\* callAcceptOffer for any peer id they can name, leave, and the session leaves
\* with the last of them
NextParty ==
    \/ JoinClick("video")
    \/ JoinSendOk
    \/ \E a \in Comers : joined /\ OnPeerJoin(a, "video")
    \/ \E a \in Comers : OnPeerLeave(a)
    \/ \E a \in Comers, peerId \in KnownIds : OnPeerAcceptOffer(a, peerId)
    \/ \E l \in Lids : HpaSrdDone(l)
    \/ LeaveSendOk
    \/ \E ok \in BOOLEAN : LeaveBindDone(ok)

InitParty ==
    /\ InitCall(Comers)
    /\ clock = Epoch
    /\ InitProbe /\ InitSdp /\ InitPresenter /\ InitTransceivers

SpecParty == InitParty /\ [][NextParty]_vars

\* the candidates of a remote party around its membership: it joins and is called,
\* sends candidates at any time, answers, leaves; the session leaves with it or
\* on a click
NextDrain ==
    \/ JoinClick("video")
    \/ JoinSendOk
    \/ \E a \in Addrs : joined /\ OnPeerJoin(a, "video")
    \/ \E a \in Addrs : OnPeerLeave(a)
    \/ AnswerStep
    \/ \E a \in Addrs, peerId \in KnownIds : OnPeerICECandidates(a, peerId, 1)
    \/ \E l \in Lids : HpaSrdDone(l)
    \/ LeaveClick
    \/ LeaveSendOk
    \/ LeaveBindDone(TRUE)

\* every pending await of the session resolves
FairDrain ==
    /\ WF_vars(JoinSendOk)
    /\ WF_vars(LeaveSendOk)
    /\ WF_vars(LeaveBindDone(TRUE))
    /\ WF_vars(\E l \in Lids : HpaSrdDone(l))

SpecDrain == Init /\ [][NextDrain]_vars /\ FairDrain

\* the received tracks of a called member: the member answers, its tracks arrive,
\* are muted and unmuted, peerCheck removes connections, and tracks of removed
\* connections are muted
NextTrack ==
    \/ JoinClick("video")
    \/ JoinSendOk
    \/ \E a \in Addrs : joined /\ OnPeerJoin(a, "video")
    \/ AnswerStep
    \/ \E l \in Lids : HpaSrdDone(l)
    \/ \E l \in Lids, media \in BOOLEAN : TrackEvent(l, media)
    \/ CheckStep
    \/ \E l \in Lids : LateTrackEvent(l)

SpecTrack == Init /\ [][NextTrack]_vars

\* callICECandidates messages of any size, the empty one included, around the
\* handshakes of a joined video session
NextBatch ==
    \/ JoinClick("video")
    \/ JoinSendOk
    \/ \E a \in Addrs : joined /\ OnPeerJoin(a, "video")
    \/ \E a \in Addrs, peerId \in KnownIds : joined /\ OnPeerOffer(a, peerId)
    \/ AnswerStep
    \/ \E a \in Addrs, peerId \in KnownIds, k \in 0..MaxBatch :
           OnPeerICECandidates(a, peerId, k)
    \/ \E a \in Addrs : AcceptSrdDone(a)
    \/ \E a \in Addrs : AcceptEmptyBucket(a)
    \/ \E a \in Addrs : AcceptAnsDone(a)
    \/ \E l \in Lids : HpaSrdDone(l)

SpecBatch == Init /\ [][NextBatch]_vars

\* the presenter while members come and go, speak up, get pinned
NextPresenter ==
    \/ Render
    \/ \E a \in Comers : AddMember(a)
    \/ \E a \in Comers : RemoveMember(a)
    \/ \E x \in {outView} \cup (1..MaxMembers) : PinClick(x)
    \/ \E v \in 1..MaxMembers, r \in Loudness : SoundLevel(v, r)
    \/ SoundCheck
    \/ SoundCheckResume

InitPresent ==
    /\ InitCall(MemberAddrs)
    /\ clock = Epoch
    /\ InitProbe /\ InitSdp /\ InitPresenter /\ InitTransceivers

SpecPresenter == InitPresent /\ [][NextPresenter]_vars

\* the choice of the sound check among three members of any loudness
NextSelect ==
    \/ \E a \in MemberAddrs : RemoveMember(a)
    \/ SoundCheck
    \/ SoundCheckResume

SpecSelect == InitSelect /\ [][NextSelect]_vars

\* the presenter of the call: render, pins, sound levels and the sound check
PresenterStep ==
    \/ Render
    \/ \E x \in {outView} \cup Vids : PinClick(x)
    \/ \E v \in Vids, r \in Levels : SoundLevel(v, r)
    \/ SoundCheck
    \/ SoundCheckResume

\* onHidden's join({type}) follows its leave() without another task in between
Next ==
    IF hiddenPc = "join" THEN HiddenJoin
    ELSE \/ JoinStep \/ LeaveStep \/ OnHidden \/ Remove
         \/ MemberStep \/ AnswerStep \/ CandidateStep
         \/ AcceptStep \/ HpaStep \/ LinkStep \/ CheckStep
         \/ PresenterStep \/ NextStale \/ NextSdp
         \/ DescriptionStep \/ NextReplace
         \/ \E l \in Lids : LateTrackEvent(l)
         \/ \E a \in Addrs : AcceptEmptyBucket(a)

Spec == Init /\ [][Next]_vars

(* ------------------------------------------------------------------ properties *)
\* an acceptOffer of address a is suspended at one of its awaits
acceptSuspended(a) == acceptRunning(a, "srd") \/ acceptRunning(a, "ans")

Cands == 1..Len(arrived)

\* candidate c is queued under peer id p
queuedUnder(c, p) == p \in DOMAIN early /\ c \in Range(early[p])

\* C2: every remote ICE candidate delivered to onPeerICECandidates is, in every
\* later state, handed to addIceCandidate of the link of its peer id or queued in
\* the early-candidate queue under that peer id, and not both and not twice.
C2_NeverDropped ==
    \A c \in Cands :
        LET p == arrived[c]
            nApplied == Cardinality({i \in 1..Len(applied[p]) : applied[p][i] = c})
            nQueued == IF p \in DOMAIN early
                       THEN Cardinality({i \in 1..Len(early[p]) : early[p][i] = c}) ELSE 0
        IN  nApplied + nQueued = 1

\* a candidate was queued early and handed to its link by a drain, while another
\* is still queued
C2_Witness ==
    /\ last = "drained"
    /\ \E c \in Cands : c \in Range(applied[arrived[c]])
    /\ \E c \in Cands : queuedUnder(c, arrived[c])

\* the streaming connection of view v was set, to another one, in this step
madeStreaming(v) ==
    /\ views'[v].streamingPeer # 0
    /\ v \in Vids => views'[v].streamingPeer # views[v].streamingPeer

inArrivalOrder(q) == \A i, j \in 1..Len(q) : i < j => q[i] < q[j]

\* C4: for each peer id the candidates are handed to addIceCandidate in the order
\* they arrived, and none is handed over while one that arrived before it is still
\* in the early-candidate queue of the same peer id.
C4_AppliedInArrivalOrder ==
    \A p \in PeerIds :
        /\ inArrivalOrder(applied[p])
        /\ \A c \in Range(applied[p]) : \A d \in Cands : queuedUnder(d, p) => c < d

\* the bucket of peer id p in map m, empty when m has no entry for p
bucketOf(m, p) == IF p \in DOMAIN m THEN m[p] ELSE <<>>

\* the candidates that arrive in this step, in arrival order
arriving == [i \in 1..(Len(arrived') - Len(arrived)) |-> Len(arrived) + i]

\* C5: every enqueueEarlyICECandidates appends its batch to the bucket of its peer
\* id, and drainEarlyICECandidates returns (to addIceCandidate) the bucket, the
\* concatenation of the enqueued batches in arrival order, and deletes the entry,
\* so that a drain right after it reports nothing; the buckets of the other peer
\* ids are as they were.
C5_DrainReturnsBatchesInOrder ==
    [][early' # early =>
         /\ \A p \in DOMAIN early' : inArrivalOrder(early'[p])
         /\ \/ \E p \in PeerIds :
                  /\ arriving # <<>>
                  /\ DOMAIN early' = DOMAIN early \cup {p}
                  /\ early'[p] = bucketOf(early, p) \o arriving
                  /\ \A q \in DOMAIN early \ {p} : early'[q] = early[q]
                  /\ applied' = applied
            \/ \E p \in DOMAIN early :
                  /\ arriving = <<>>
                  /\ DOMAIN early' = DOMAIN early \ {p}
                  /\ \A q \in DOMAIN early' : early'[q] = early[q]
                  /\ applied' = [applied EXCEPT ![p] = @ \o early[p]]
                  /\ ~drainEarlyICECandidates(early', p).has
                  /\ drainEarlyICECandidates(early', p).map = early']_vars

\* a drain has just returned a bucket and left the queue of another peer id
C5_Witness ==
    /\ last = "drained"
    /\ \E p \in DOMAIN early : early[p] # <<>>
    /\ \E p \in PeerIds : p \notin DOMAIN early /\ applied[p] # <<>>

\* C6: the join state only moves not-joined -> joining -> joined -> leaving ->
\* not-joined: the session is never marked joined while the leaving flag is set,
\* and a leave that resumes with the session marked joined never clears the join
\* type or removes a member.
C6_NeverJoinedWhileLeaving ==
    [][/\ ~(joined' /\ leaving')
       /\ (leaveTask.pc = "send" /\ leaveTask' # leaveTask /\ joined) =>
              (joinType' = joinType /\ memberViews' = memberViews)]_vars

\* a join() is invoked in this step
JoinCall == (\E t \in JoinTypes : JoinClick(t)) \/ IncomingAccept \/ HiddenJoin

\* a join() returns in this step
joinReturns == joinPc = "send" /\ joinPc' = "idle"

C8_JoinWhileJoiningIgnored ==
    [][/\ (JoinCall /\ joining) =>
              UNCHANGED <<nJoinSent, joinType, outStream, outVideo, joined, everJoined,
                          joining, joinPc>>
       /\ nJoinSent' # nJoinSent => (~joining /\ joining' /\ nJoinSent' = nJoinSent + 1)
       /\ (~joining /\ joining') => nJoinSent' = nJoinSent + 1]_vars

\* a join() has just been ignored while the first one awaits its announcement
C8_Witness == last = "joinIgnored" /\ joining /\ joinPc = "send" /\ nJoinSent = 1

\* C9: at the moment onHidden's second join begins, after its leave returned and
\* with no join of the user in between (one announcement so far), the session is
\* not joined, no remote member is in the member set, the join type is cleared and
\* the outgoing stream has been acquired anew, whatever signaling arrived during
\* the leave.
C9_CleanBeforeSecondJoin ==
    (hiddenPc = "join" /\ ~leaving /\ nJoinSent = 1) =>
        /\ ~joined
        /\ \A a \in Addrs : memberViews[a] = 0
        /\ joinType = "null"
        /\ outStream > 1

\* C10: leave() invoked while the session is not joined, or while another leave()
\* is in flight, changes nothing: no leave announcement, the flags and the join
\* type as they were, and under onLeaveClick and onHidden, which do nothing else,
\* no member view removed and the outgoing stream as it was.  Only a leave without
\* removing acquires a new outgoing stream.
C10_LeaveIgnoredChangesNothing ==
    [][/\ last' = "leaveIgnored" =>
              UNCHANGED <<nLeaveSent, joinType, joined, leaving, leaveTask, joining>>
       /\ ((LeaveClick \/ OnHidden) /\ leaveIgnored) =>
              UNCHANGED <<memVars, outStream, outVideo, nLeaveSent, joinType>>
       /\ nLeaveSent' # nLeaveSent => (joined /\ ~leaving)
       /\ leaveTask.removing => (leaveTask.pc # "bind" /\ outStream' \in {outStream, 0})
       /\ outStream' \notin {outStream, 0} =>
              (leaveTask.pc = "bind" /\ ~leaveTask.removing)]_vars

\* a leave() has just been ignored
C10_Witness == last = "leaveIgnored" /\ nLeaveSent >= 1 /\ ~joined

\* C11: while the session is not joined, onPeerJoin only records the invitation:
\* the sender's address joins the incoming set (its type the type set, the 45 s
\* timer is armed) and no member view, no connection and no establish is made, the
\* session is as it was; while joined, onPeerJoin leaves the invitations alone.
C11_JoinAnnouncementIsInvitation ==
    [][\A a \in Addrs, t \in JoinTypes :
           OnPeerJoin(a, t) =>
               IF ~joined
               THEN /\ incoming' = incoming \cup {a}
                    /\ incomingTypes' = incomingTypes \cup {t}
                    /\ clearIncomingTimeout'
                    /\ UNCHANGED <<memVars, taskVars, sessVars>>
               ELSE UNCHANGED incVars]_vars

\* an invitation is held by a session that was joined before and knows no member
C11_Witness ==
    /\ incoming # {} /\ ~joined /\ everJoined
    /\ \A a \in Addrs : memberViews[a] = 0

\* a connection is removed in this step
removedPeer(l) == links[l].open /\ ~links'[l].open

\* C12: whoever calls removePeer (the stale and the redundant removal of peerCheck,
\* the removal of the member), when the connection removed is the member's
\* streaming connection the rendered stream is cleared with it: afterwards the view
\* has no streaming connection, its stream is null and its streaming mark is off;
\* the removal of another connection leaves the rendered stream alone.  A view
\* never renders the stream of a connection that is closed.
C12_RemovePeerClearsStream ==
    [][/\ \A l \in Lids :
              removedPeer(l) =>
                  LET v == links[l].view
                  IN  IF views[v].streamingPeer = l
                      THEN /\ views'[v].streamingPeer = 0
                           /\ views'[v].stream = 0
                           /\ ~views'[v].streaming
                      ELSE \/ views'[v].streamingPeer = views[v].streamingPeer
                           \/ removedPeer(views[v].streamingPeer)
       /\ \A v \in 1..Len(views') :
              /\ views'[v].streamingPeer # 0 => links'[views'[v].streamingPeer].open
              /\ views'[v].stream # 0 => links'[views'[v].stream].open]_vars

\* peerCheck's stale removal has just removed the streaming connection of a member
\* that stays, and cleared its stream
C12_Witness ==
    /\ last = "removedStreaming"
    /\ \E v \in Vids :
           /\ views[v].registered /\ memberViews[views[v].addr] = v
           /\ views[v].streamingPeer = 0 /\ views[v].stream = 0 /\ ~views[v].streaming
           /\ \E l \in Lids : links[l].view = v /\ ~links[l].open /\ links[l].media

\* the time since the watched connection was last known connected, or was added
sinceAlive == clock - (IF probe.connected # 0 THEN probe.connected ELSE probe.added)

\* C13: isStale() is false whenever the ICE state is connected or completed;
\* otherwise it is true exactly when more than 30 s have passed since the
\* last-connected timestamp if one was ever set, else since the added-at timestamp:
\* a link that never connected is not stale 29 s and 30 s after it was added and
\* is stale 31 s after.
C13_StaleAfterThirtySeconds ==
    staleSeen # "none" =>
        /\ isConnected(probe.ice) => staleSeen = "fresh"
        /\ ~isConnected(probe.ice) => (staleSeen = "stale" <=> sinceAlive > 30000)
        /\ (probe.connected = 0 /\ clock - probe.added \in {29000, 30000}) =>
               staleSeen = "fresh"
        /\ (probe.connected = 0 /\ clock - probe.added = 31000) => staleSeen = "stale"

\* a link that never connected is found stale 31 s after it was added
C13_Witness ==
    staleSeen = "stale" /\ probe.connected = 0 /\ clock - probe.added = 31000

\* the index of the m=video line of a text, 0 when it has none, and the index of
\* the m= line that ends its section (one past the end when none does)
videoStart(sdp) ==
    IF hasVideo(sdp)
    THEN CHOOSE i \in 1..Len(sdp) : startsWithMVideo(sdp[i])
                                    /\ \A j \in 1..(i - 1) : ~startsWithMVideo(sdp[j])
    ELSE 0
videoEnd(sdp) ==
    LET ms == {i \in (videoStart(sdp) + 1)..Len(sdp) : startsWithM(sdp[i])}
    IN  IF ms = {} THEN Len(sdp) + 1 ELSE CHOOSE i \in ms : \A j \in ms : i <= j

\* the lines of the video section after its m= line, and the lines outside of it
videoLines(sdp) ==
    IF videoStart(sdp) = 0 THEN <<>> ELSE SubSeq(sdp, videoStart(sdp) + 1, videoEnd(sdp) - 1)
outsideVideo(sdp) ==
    IF videoStart(sdp) = 0 THEN sdp
    ELSE SubSeq(sdp, 1, videoStart(sdp)) \o SubSeq(sdp, videoEnd(sdp), Len(sdp))

isOther(line) == ~startsWithB(line)
bitrateLines(sec) == SelectSeq(sec, startsWithB)
otherLines(sec) == SelectSeq(sec, isOther)

\* the bitrate a b= line declares, in bps
declaredBps(line) == IF startsWithBAS(line) THEN line.n * 1024 ELSE line.n

\* a limitSDPBandwidth call is made in this step: its argument, its input's and its
\* result's video section
limited == ceilings' # ceilings
ceiling == ceilings'[Len(ceilings')]
videoIn == videoLines(desc.sdp)
videoOut == videoLines(desc'.sdp)

\* a ceiling or an existing limit applies, to a video section with a c= line
limitApplies ==
    /\ ceiling # 0 \/ bitrateLines(videoIn) # <<>>
    /\ \E i \in 1..Len(videoIn) : startsWithCIN(videoIn[i])

\* the least of the ceiling and the bitrates the video section declares
leastBps ==
    LET bs == {declaredBps(videoIn[i]) : i \in {j \in 1..Len(videoIn) : startsWithB(videoIn[j])}}
                  \cup (IF ceiling # 0 THEN {ceiling} ELSE {})
    IN  CHOOSE b \in bs : \A x \in bs : b <= x

\* C14: limitSDPBandwidth never raises bandwidth: whenever a ceiling or an existing
\* limit applies, the TIAS line it writes into the video section declares the
\* least of the ceiling and of every bitrate a b= line of that section declared,
\* and every b= line the section has afterwards declares that same value (the AS
\* line in kbps, rounded); an existing 500,000 bps under a ceiling of 2,000,000
\* bps stays 500,000 bps.
C14_NeverRaisesBandwidth ==
    [][(limited /\ limitApplies) =>
           /\ \E i \in 1..Len(videoOut) : videoOut[i] = Line("b=TIAS", leastBps)
           /\ \A i \in 1..Len(videoOut) :
                  startsWithB(videoOut[i]) =>
                      \/ videoOut[i] = Line("b=TIAS", leastBps)
                      \/ videoOut[i] = Line("b=AS", roundKbps(leastBps))
           /\ (bitrateLines(videoIn) = <<Line("b=TIAS", 500000)>> /\ ceiling = 2000000) =>
                  bitrateLines(videoOut) = <<Line("b=TIAS", 500000), Line("b=AS", 488)>>]_vars

\* the set of the b= lines of a section
bitrateValues(sec) == {sec[i] : i \in {j \in 1..Len(sec) : startsWithB(sec[j])}}

\* the description was made without a bitrate line and limited twice under one
\* ceiling
limitedTwice ==
    /\ Len(ceilings) = 2 /\ ceilings[1] = ceilings[2]
    /\ bitrateLines(offer.sdp) = <<>>

\* C15: limitSDPBandwidth is idempotent on ceiling-only inputs: for a description
\* without a bitrate line and a ceiling c, the video section of limit(limit(d, c), c)
\* declares the same bitrate values as that of limit(d, c).
C15_IdempotentOnCeilingOnly ==
    limitedTwice =>
        /\ desc = limitSDPBandwidth(limitSDPBandwidth(offer, ceilings[1]), ceilings[1])
        /\ bitrateValues(videoLines(desc.sdp))
               = bitrateValues(videoLines(limitSDPBandwidth(offer, ceilings[1]).sdp))
        /\ desc.type = offer.type

\* a video section with a c= line and no bitrate line was limited twice to 500,000 bps
C15_Witness ==
    /\ limitedTwice /\ ceilings[1] = 500000
    /\ \E i \in 1..Len(videoLines(offer.sdp)) : startsWithCIN(videoLines(offer.sdp)[i])
    /\ Line("b=TIAS", 500000) \in bitrateValues(videoLines(desc.sdp))

\* the place of the c= line in the video section of the input
videoCIN == CHOOSE i \in 1..Len(videoIn) :
                startsWithCIN(videoIn[i]) /\ \A j \in 1..(i - 1) : ~startsWithCIN(videoIn[j])

\* C16: when a ceiling or an existing limit applies, the video section of the
\* result has exactly one TIAS and one AS line, right after the section's c= line
\* and in this order, every b= line the section had is gone, its other lines are
\* as they were, and no line outside the video section is added, removed or
\* changed.
C16_RewritesVideoSectionOnly ==
    [][(limited /\ limitApplies) =>
           /\ Len(bitrateLines(videoOut)) = 2
           /\ Len(videoOut) >= videoCIN + 2
           /\ startsWithCIN(videoOut[videoCIN])
           /\ videoOut[videoCIN + 1].k = "b=TIAS"
           /\ videoOut[videoCIN + 2].k = "b=AS"
           /\ otherLines(videoOut) = otherLines(videoIn)
           /\ outsideVideo(desc'.sdp) = outsideVideo(desc.sdp)]_vars

\* C17: while the presenter is pinned, a firing of the sound check leaves the
\* presenter alone, whatever the sound levels and whoever joined; a pinned presenter
\* is replaced only when the pin moves to another view or its view leaves the call.
C17_PinnedPresenterStays ==
    [][(presenting \in pinned) =>
         ( /\ clock' # clock => presenting' = presenting
           /\ presenting' # presenting =>
                 ( \/ pinned' = {presenting'}
                   \/ presenting \notin remoteViews(memberViews') \cup {outView} ) )]_vars

\* the sound check has just run with a pinned presenter that it would have replaced
C17_Witness ==
    /\ last = "pinnedKept"
    /\ presenting \in pinned
    /\ Cardinality(remoteViews(memberViews)) >= 2
    /\ getMostPresentableMemberView(memberViews, views, presenting) # presenting

\* the soundRMS of the remote member views
remoteLevels == {views[v].soundRMS : v \in remoteViews(memberViews)}

\* C18: with two or more remote members and no pin getMostPresentableMemberView
\* returns a remote member that no remote member exceeds by 0.01 or more, and it
\* returns the incumbent remote presenter exactly when no remote member exceeds the
\* incumbent by 0.01 or more; members at 0.10, 0.12 and 0.50 give the one at 0.50.
C18_LoudestWithIncumbent ==
    LET vs == remoteViews(memberViews)
        r  == getMostPresentableMemberView(memberViews, views, presenting)
    IN  (Cardinality(vs) >= 2 /\ pinned = {} /\ presenting # 0) =>
          /\ r \in vs
          /\ \A v \in vs : views[v].soundRMS - views[r].soundRMS < Margin
          /\ presenting \in vs =>
                (r = presenting <=>
                   \A v \in vs : views[v].soundRMS - views[presenting].soundRMS < Margin)
          /\ (Cardinality(vs) = 3 /\ remoteLevels = {100, 120, 500}) =>
                views[r].soundRMS = 500

\* the sound check has just made the member at 0.50 the presenter, the others being
\* at 0.10 and 0.12
C18_Witness ==
    /\ last = "policySwitch"
    /\ Cardinality(remoteViews(memberViews)) = 3
    /\ remoteLevels = {100, 120, 500}
    /\ presenting \in remoteViews(memberViews)
    /\ views[presenting].soundRMS = 500

\* C19: a switch of the presenter made by the sound check comes no sooner than 2
\* seconds after the last switch made by the sound check, also when that check is
\* still waiting for selectPresenter.
C19_NoPolicySwitchWithinHysteresis ==
    [][(last' = "policySwitch" /\ clock' # clock /\ switchedAt # 0) =>
         clock' - switchedAt >= Hysteresis]_vars

\* the invocations of operation op for address a that have started and not ended
inFlight(Q, V, op, a) ==
    {<<k, i>> \in Keys \X (1..(MaxQueue + 2)) :
        /\ i <= Len(Q[k])
        /\ Q[k][i].op = op /\ V[Q[k][i].view].addr = a
        /\ Q[k][i].pc # "wait"}

\* the invocations of a bucket, oldest first
invocations(q) == [i \in 1..Len(q) |-> <<q[i].op, q[i].view, q[i].peerId>>]

\* C20: the invocations of one operation for one address run one after another in
\* the order they were made: a bucket only grows at its tail and shrinks at its
\* head, an invocation has started only when all older ones of its bucket are gone,
\* and at no time have two acceptOffer, or two establish, of an address started and
\* not ended.
C20_OneInFlightInOrder ==
    [][/\ \A k \in Keys :
            LET q == invocations(queues[k])
                r == invocations(queues'[k])
            IN  /\ \/ r = q
                   \/ Len(r) = Len(q) + 1 /\ SubSeq(r, 1, Len(q)) = q
                   \/ q # <<>> /\ r = Tail(q)
                /\ \A i \in 2..Len(r) : queues'[k][i].pc = "wait"
       /\ \A a \in Addrs :
            /\ Cardinality(inFlight(queues', views', "acceptOffer", a)) <= 1
            /\ Cardinality(inFlight(queues', views', "establish", a)) <= 1]_vars

\* a second acceptOffer of an address waits while the first awaits
C20_Witness ==
    \E a \in Addrs :
        LET q == queues[acceptOfferKey(a)]
        IN  /\ Len(q) >= 2
            /\ q[1].op = "acceptOffer" /\ q[1].pc # "wait"
            /\ q[2].op = "acceptOffer" /\ q[2].pc = "wait"
            /\ Cardinality(inFlight(queues, views, "acceptOffer", a)) = 1

\* the acceptOffer at the head of bucket k passes setRemoteDescription in this step
passesSrd(k) ==
    /\ queues[k] # <<>> /\ queues'[k] # <<>>
    /\ Head(queues[k]).pc = "srd" /\ Head(queues'[k]).pc = "ans"
    /\ Head(queues'[k]) = [Head(queues[k]) EXCEPT !.pc = "ans"]

C22_RemovedStopsOutStream ==
    (removed /\ leaveTask = IdleLeave /\ joinPc = "idle" /\ hiddenPc = "idle")
        => outStream = 0

\* C23: the timer empties the invitation set 45 seconds after the latest
\* invitation and never sooner, every invitation restarting the period; as long as
\* invitations are pending the timer is armed for 45 seconds after the latest of
\* them and time has not passed that moment, so that without a new invitation the
\* set is emptied.
C23_ClearedAfter45Seconds ==
    [][/\ (incoming' # {}) =>
            /\ clearIncomingTimeout'
            /\ clearIncomingDue' = invitedAt' + IncomingTimeout
            /\ clock' <= clearIncomingDue'
       /\ (last' = "incomingTimeout" /\ incoming # {}) =>
            /\ clock - invitedAt = IncomingTimeout
            /\ incoming' = {} /\ ~clearIncomingTimeout']_vars

\* the timer has just emptied the set, 45 s after a second invitation that came
\* while the first was pending
C23_Witness ==
    /\ last = "incomingTimeout"
    /\ incoming = {}
    /\ clock = Epoch + 15000 + IncomingTimeout

\* the type of the pending invitations: video when one of them is for video
pendingKind ==
    IF \E a \in incoming : "video" \in incomingKinds[a] THEN "video" ELSE "audio"

\* C24: while invitations are pending the type announced for them, which is the
\* type the accept button joins with, is video when at least one pending invitation
\* is for video and audio when all of them are for audio.
C24_AnnouncedKindOfPending == incoming # {} => incomingType = pendingKind

(* ------------------------------------------------ reconciliation actions *)
\* the callbacks of _schedPeerActionSoon of view v that have not run yet
pendingActions(v) == views[v].timers

\* C25: for each member at most one reconciliation action (zero-link recheck,
\* stale-link removal, redundant-link removal) is scheduled and pending at any
\* time, so no two link removals of one member are pending at once
C25_OneActionPending == \A v \in Vids : Cardinality(pendingActions(v)) <= 1


\* view v is a remote member of the call
isMember(v) == v \in Vids /\ views[v].registered /\ memberViews[views[v].addr] = v

zeroLinks(v) == isMember(v) /\ getPeers(v) = {}

\* the delayed recheck of view v runs in this step; old: more than 60 s have passed
\* since the view's stream last changed
recheckFires(v, old) ==
    /\ Timer("zero", 0) \in views[v].timers
    /\ TimerFire(v, Timer("zero", 0), old)

\* establish ran for view v in this step: v has a new connection, its tracks added
established(v) ==
    \E l \in (Len(links) + 1)..Len(links') :
        links'[l].view = v /\ links'[l].open /\ links'[l].tracksAdded

\* C26: a remote member with zero links is eventually either removed from the call
\* or given a new link: when the delayed recheck fires and the member still has
\* zero links it is dropped if more than 60 s have passed since its last stream
\* change, and otherwise establish is run again; if a link appeared before the
\* recheck fires, neither happens
C26_ZeroLinksResolved ==
    /\ [][\A v \in Vids :
            /\ (zeroLinks(v) /\ recheckFires(v, TRUE))
                   => /\ memberViews'[views[v].addr] = 0
                      /\ ~views'[v].registered
                      /\ links' = links
            /\ (zeroLinks(v) /\ recheckFires(v, FALSE))
                   => /\ memberViews' = memberViews /\ views'[v].registered
                      /\ established(v)
            /\ (getPeers(v) # {} /\ \E old \in BOOLEAN : recheckFires(v, old))
                   => /\ memberViews' = memberViews /\ links' = links
                      /\ views'[v].registered = views[v].registered]_vars
    /\ \A v \in 1..MaxViews :
           zeroLinks(v) ~> (~isMember(v) \/ getPeers(v) # {})

\* the recheck dropped a member of the session
C26_Witness ==
    /\ joined
    /\ \E v \in Vids : ~views[v].registered /\ memberViews[views[v].addr] = 0


\* the callback scheduled as kind for connection l of view v runs in this step
actionFires(v, kind, l) ==
    /\ Timer(kind, l) \in views[v].timers
    /\ \E old \in BOOLEAN : TimerFire(v, Timer(kind, l), old)

\* C27: redundant-link collection never removes the member's current streaming
\* link: when the delayed removal fires, the link scheduled as redundant is removed
\* only if it is not the streaming link at that moment, even if the streaming link
\* changed after scheduling
C27_RedundantSparesStreaming ==
    [][\A v \in Vids, l \in Lids :
          actionFires(v, "redundant", l)
              => /\ views'[v].streamingPeer = views[v].streamingPeer
                 /\ IF views[v].streamingPeer = l
                    THEN links' = links
                    ELSE ~links'[l].open /\ \A m \in Lids \ {l} : links'[m] = links[m]]_vars

\* the connection scheduled as redundant has become the streaming one
C27_Witness ==
    \E v \in Vids, l \in Lids :
        /\ Timer("redundant", l) \in views[v].timers
        /\ links[l].open /\ views[v].streamingPeer = l


\* the connections of view v whose ICE state is connected or completed
connectedLinks(L, v) == connectedOf(L, getPeersOf(L, v))

\* C28: redundant-link collection never closes a member's last connected link:
\* right after any removal performed as redundant the member still has a link
\* whose ICE state is connected or completed, whatever happened between the
\* scheduling of the removal and its firing
C28_RedundantLeavesConnected ==
    [][\A v \in Vids, l \in Lids :
          (actionFires(v, "redundant", l) /\ links[l].open /\ ~links'[l].open)
              => connectedLinks(links', v) # {}]_vars


\* C29: a link scheduled for stale removal is closed and discarded only if it is
\* still not connected when the delayed action fires; a link that reached connected
\* or completed between scheduling and firing is kept, and a connected link is
\* never removed as stale
C29_StaleOnlyIfUnconnected ==
    [][\A v \in Vids, l \in Lids :
          actionFires(v, "stale", l)
              => IF isConnected(links[l].ice)
                 THEN links' = links /\ views'[v].streamingPeer = views[v].streamingPeer
                 ELSE ~links'[l].open /\ \A m \in Lids \ {l} : links'[m] = links[m]]_vars

\* the connection scheduled for stale removal has connected in the meantime
C29_Witness ==
    \E v \in Vids, l \in Lids :
        /\ Timer("stale", l) \in views[v].timers
        /\ links[l].open /\ isConnected(links[l].ice)


\* a reconciliation pass of view v comes to its decisions in this step
passDecides(v) ==
    \/ PeerCheckResume(v)
    \/ PeerCheck(v) /\ ~views'[v].checking

\* C30: after a reconciliation pass that runs with no pending scheduled action for
\* a member that has at least one connected link and no streaming link, the
\* member's streaming link is the most recently added of its connected links
C30_BindsNewestConnected ==
    [][\A v \in Vids :
          (/\ passDecides(v)
           /\ ~views[v].peerActionTimeout /\ views[v].timers = {}
           /\ connectedLinks(links, v) # {}
           /\ views[v].streamingPeer = 0)
              => views'[v].streamingPeer = newest(connectedLinks(links, v))]_vars


(* ------------------------------------------------------ the offering timer *)
\* C31: the 30 s timer armed by establish is cancelled by superseding activity:
\* once a matching accept was handled, a new establish started, or one of the
\* member's links reached the connected state, that timer never sets the member's
\* status to 'Unavailable'
C31_OfferingTimerSuperseded ==
    [][\A v \in Vids : OfferingFire(v) => connectedLinks(links, v) = {}]_vars


\* C32: after a member has been removed from the call none of its still-pending
\* reconciliation or offer timers has any effect: no establish runs for it and no
\* link is created on its behalf
C32_RemovedTimersInert ==
    [][\A v \in Vids :
          (~views[v].registered /\ \E old \in BOOLEAN : recheckFires(v, old))
              => links' = links]_vars


\* C33: no signaling message received while the session is not joined creates a
\* remote member view or a link
C33_NotJoinedNothingCreated ==
    [][~joined => (Len(views') = Len(views) /\ Len(links') = Len(links))]_vars


(* ---------------------------------------------------- acceptOffer's answer *)
\* the acceptOffer invocation of address a that is running
runningAccept(a) == Head(queues[acceptOfferKey(a)])

\* C34: acceptOffer given a remote description that is not of offer type fails and
\* sends no callAcceptOffer answer; an answer is sent only after the remote offer
\* was applied, and it carries the peer id of the offer it answers
C34_AnswerOnlyToAppliedOffer ==
    /\ [](\A a \in Addrs :
              acceptRunning(a, "ans") => runningAccept(a).type = "offer")
    /\ [][\A a \in Addrs :
            AcceptAnsDone(a)
                => /\ runningAccept(a).type = "offer"
                   /\ links[runningAccept(a).link].rd
                   /\ links[runningAccept(a).link].id = runningAccept(a).peerId]_vars

\* acceptOffer works on a description that is no offer
C34_Witness ==
    \E a \in Addrs : acceptRunning(a, "srd") /\ runningAccept(a).type # "offer"


(* ------------------------------------------------- replaceMembersOutTrack *)
\* a transceiver of P that is not stopped and receives a track of this kind
someMatch(P, kind) == \E i \in DOMAIN P : replacedOn(P[i], kind)

\* C35: replaceMembersOutTrack raises an error exactly when no non-stopped
\* transceiver across all links of all members has a receiver track of the new
\* track's kind; whenever one exists it completes, and afterwards every non-stopped
\* transceiver of that kind on every link sends the new track with direction sendrecv
C35_ThrowsIffNoTransceiver ==
    [][\A kind \in Kinds :
          ReplaceMembersOutTrack(kind)
              => /\ replaced'.threw <=> ~someMatch(transceivers, kind)
                 /\ ~replaced'.threw
                        => \A i \in DOMAIN transceivers' :
                               \A j \in DOMAIN transceivers'[i] :
                                   matches(transceivers'[i][j], kind)
                                       => /\ transceivers'[i][j].sends
                                          /\ transceivers'[i][j].direction = "sendrecv"]_vars


(* ------------------------------------------------ signaling about the unknown *)
\* the sender has no member view, or its view has no registered connection peerId
strayAccept(a, peerId) ==
    \/ memberViews[a] = 0
    \/ ~\E l \in Lids : /\ links[l].open /\ links[l].view = memberViews[a]
                        /\ links[l].id = peerId

\* members, connections, streaming connections, candidate queues and join state
\* are as before
sessionUntouched ==
    UNCHANGED <<memberViews, views, links, hpa, early, applied, joined, joining,
                leaving, joinType, leaveTask, nLeaveSent>>

\* C36: a callAcceptOffer from a sender without member view or for a peer id no
\* connection of its view has, and a callLeave from a sender without member view,
\* change neither the members, nor any connection or streaming connection, nor
\* the candidate queues, nor the join state
C36_StraySignalingIgnored ==
    [][\A a \in Comers :
         /\ \A peerId \in PeerIds :
                (strayAccept(a, peerId) /\ OnPeerAcceptOffer(a, peerId))
                    => sessionUntouched
         /\ (memberViews[a] = 0 /\ OnPeerLeave(a)) => sessionUntouched]_vars

\* joined, one party is a member with a connection of its own id, the other is not
C36_Witness ==
    /\ joined
    /\ \E a, b \in Comers :
          /\ memberViews[a] = 0
          /\ memberViews[b] # 0 /\ getPeers(memberViews[b]) # {}
          /\ strayAccept(b, RemoteId)

(* ---------------------------------------------------- the last member leaves *)
\* the member views of the remote parties other than a
othersIn(M, a) == {M[b] : b \in DOMAIN M \ {a}} \ {0}

\* C37: while joined, a callLeave of the last remote member makes the session
\* leave (sendLeave is called, the session is not joined and no remote member
\* is left); a callLeave that leaves another remote member does not
C37_LastLeaveEndsSession ==
    [][\A a \in Comers :
         (joined /\ memberViews[a] # 0 /\ OnPeerLeave(a)) =>
             IF othersIn(memberViews, a) = {}
             THEN /\ nLeaveSent' = nLeaveSent + 1
                  /\ ~joined'
                  /\ remoteViews(memberViews') = {}
             ELSE /\ nLeaveSent' = nLeaveSent
                  /\ joined'
                  /\ remoteViews(memberViews') = othersIn(memberViews, a)]_vars

(* ------------------------------------------------ early candidates are drained *)
\* a registered connection with peer id id has its remote description
readyFor(id) == \E l \in Lids : links[l].open /\ links[l].id = id /\ links[l].rd

\* the connections with peer id id are all removed, with their member view
orphaned(id) ==
    /\ \E l \in Lids : links[l].id = id
    /\ \A l \in Lids : links[l].id = id => ~links[l].open /\ ~views[links[l].view].registered

\* C38: an entry of the early-candidate queue whose connection has its remote
\* description, or whose member was removed, is eventually deleted
C38_EarlyEventuallyDrained ==
    \A id \in PeerIds :
        (id \in DOMAIN early /\ (readyFor(id) \/ orphaned(id))) ~> (id \notin DOMAIN early)

(* ------------------------------------------- the streaming connection is registered *)
\* C39: the streaming connection of a member view, when set, is one of the
\* connections registered with the view
C39_StreamingIsRegistered ==
    \A v \in Vids :
        (views[v].registered /\ views[v].streamingPeer # 0)
            => views[v].streamingPeer \in getPeers(v)

(* ------------------------------------------------- a drained bucket is not empty *)
\* C40: whenever acceptOffer or handlePeerAcceptOffer drains the entry of its peer
\* id after setRemoteDescription, the bucket drainEarlyICECandidates returns is
\* not empty
C40_DrainedBucketNonEmpty ==
    [][/\ \A a \in Addrs :
            (acceptRunning(a, "srd") /\ (AcceptSrdDone(a) \/ AcceptEmptyBucket(a)))
                => drainEarlyICECandidates(early, runningAccept(a).peerId).bucket # <<>>
                   \/ ~drainEarlyICECandidates(early, runningAccept(a).peerId).has
       /\ \A l \in Lids :
            (l \in hpa /\ HpaSrdDone(l))
                => drainEarlyICECandidates(early, links[l].id).bucket # <<>>
                   \/ ~drainEarlyICECandidates(early, links[l].id).has]_vars

====
